---- MODULE Spec2Model ----
(***************************************************************************)
(* Model of package search (marcsantiago/search_keyword): the Scanner, its *)
(* gate (sema), its result slice and the three scan operations Search,     *)
(* SearchWithRegx and SearchForEmail, together with the pure helpers       *)
(* normalizeURL and linksToCheck.  The revision modelled is the one with   *)
(* link discovery, the shared http client and the buffer pool.             *)
(*                                                                         *)
(* Strings are sequences of one-character strings, so that Contains,       *)
(* Replace, Count and Split are computed as the Go code computes them.     *)
(***************************************************************************)
EXTENDS Integers, Sequences, FiniteSets, TLC

(***************************************************************************)
(* Bounds of the model.                                                    *)
(***************************************************************************)
\* number of scan calls issued concurrently (one goroutine per call) on a
\* Scanner with depthLimit 0
NumCalls == 2
\* number of scan calls issued concurrently on a Scanner that crawls
\* (depthLimit > 0)
NumCrawls == 1
\* largest concurrentLimit handed to NewScanner
MaxLimit == 2
\* largest depthLimit handed to NewScanner
MaxDepth == 1
\* largest number of anchors on a page handed to linksToCheck alone
MaxAnchors == 3
\* largest limit handed to linksToCheck alone
MaxLinkLimit == 2
\* number of scan calls running beside the reader of the results
NumWriters == 2
\* largest number of reads of sc.results by the reader
MaxReads == 2
\* largest length of a Results value handed to sort.Sort alone
MaxResults == 3
\* the results of one Scanner handed to sort.Sort when their order is compared
MaxStable == 7
\* number of Search calls on the Scanner that keeps the WasFound map
NumSearches == 2
\* largest number of links one call fetches when the buffers are followed
MaxFetches == 2
\* largest number of path segments of a URL handed to normalizeURL alone
MaxSegments == 2
\* largest length of a page body put to the matching alone
MaxBody == 5
\* largest number of filters handed to SearchForEmail
MaxFilters == 2
\* number of goroutines that use the buffer pool on its own
NumUsers == 2
\* largest number of buffers the pool's New allocates
NumBuffers == 2
\* largest number of bytes written to a buffer
MaxBytes == 2

(***************************************************************************)
(* package strings                                                         *)
(***************************************************************************)
HasPrefixAt(s, sub, i) ==
    /\ i >= 1
    /\ i + Len(sub) - 1 <= Len(s)
    /\ SubSeq(s, i, i + Len(sub) - 1) = sub

HasPrefix(s, sub) == HasPrefixAt(s, sub, 1)

\* strings.Index, 1-based; 0 when sub does not occur
Index(s, sub) ==
    LET hits == {i \in 1..(Len(s) + 1) : HasPrefixAt(s, sub, i)}
    IN  IF hits = {} THEN 0 ELSE CHOOSE i \in hits : \A j \in hits : i <= j

\* strings.LastIndex, 1-based; 0 when sub does not occur
LastIndex(s, sub) ==
    LET hits == {i \in 1..(Len(s) + 1) : HasPrefixAt(s, sub, i)}
    IN  IF hits = {} THEN 0 ELSE CHOOSE i \in hits : \A j \in hits : i >= j

Contains(s, sub) == Index(s, sub) # 0

RECURSIVE Count(_, _)
\* strings.Count: number of non-overlapping occurrences (sub non-empty)
Count(s, sub) ==
    LET i == Index(s, sub)
    IN  IF i = 0 THEN 0
        ELSE 1 + Count(SubSeq(s, i + Len(sub), Len(s)), sub)

RECURSIVE Replace(_, _, _, _)
\* strings.Replace(s, old, new, n): the first n non-overlapping occurrences,
\* all of them when n < 0 (old non-empty)
Replace(s, old, new, n) ==
    LET i == Index(s, old)
    IN  IF n = 0 \/ i = 0 THEN s
        ELSE SubSeq(s, 1, i - 1) \o new
               \o Replace(SubSeq(s, i + Len(old), Len(s)), old, new,
                          IF n < 0 THEN n ELSE n - 1)

RECURSIVE Split(_, _)
\* strings.Split(s, sep) (sep non-empty)
Split(s, sep) ==
    LET i == Index(s, sep)
    IN  IF i = 0 THEN <<s>>
        ELSE <<SubSeq(s, 1, i - 1)>> \o Split(SubSeq(s, i + Len(sep), Len(s)), sep)

\* inSlice(tar, s)
inSlice(tar, s) == \E i \in 1..Len(s) : s[i] = tar

(***************************************************************************)
(* String constants of the source.                                         *)
(***************************************************************************)
StrHttp == <<"h", "t", "t", "p">>
StrHttps == <<"h", "t", "t", "p", "s">>
StrHttpsColon == <<"h", "t", "t", "p", "s", ":">>
StrSchemeSep == <<":", "/", "/">>
StrSlash == <<"/">>
StrDot == <<".">>
StrColon == <<":">>
StrEmpty == <<>>

(***************************************************************************)
(* Errors.  ErrParse stands for the *url.Error of url.Parse, ErrTransport  *)
(* for the error returned by http.Client.Get; "nil" is the nil error.      *)
(***************************************************************************)
ErrURLEmpty == "ErrURLEmpty"
ErrDomainMissing == "ErrDomainMissing"
ErrUnresolvedOrTimedOut == "ErrUnresolvedOrTimedOut"
ErrParse == "ErrParse"
ErrTransport == "ErrTransport"
Nil == "nil"

(***************************************************************************)
(* net/url, for inputs over letters, digits and the characters . / : %     *)
(***************************************************************************)
Letters == {"a", "b", "c", "d", "e", "f", "h", "k", "m", "o", "p", "s", "t", "w", "x", "z"}
Digits == {"0", "2", "5", "8"}
HexChars == {"a", "b", "c", "d", "e", "f", "0", "2", "5", "8"}

\* getScheme: [ok, scheme, rest]
RECURSIVE getSchemeFrom(_, _)
getSchemeFrom(raw, i) ==
    IF i > Len(raw) THEN [ok |-> TRUE, scheme |-> StrEmpty, rest |-> raw]
    ELSE IF raw[i] \in Letters THEN getSchemeFrom(raw, i + 1)
    ELSE IF raw[i] \in Digits \cup {"+", "-", "."} THEN
        IF i = 1 THEN [ok |-> TRUE, scheme |-> StrEmpty, rest |-> raw]
        ELSE getSchemeFrom(raw, i + 1)
    ELSE IF raw[i] = ":" THEN
        IF i = 1 THEN [ok |-> FALSE, scheme |-> StrEmpty, rest |-> StrEmpty]
        ELSE [ok |-> TRUE, scheme |-> SubSeq(raw, 1, i - 1),
              rest |-> SubSeq(raw, i + 1, Len(raw))]
    ELSE [ok |-> TRUE, scheme |-> StrEmpty, rest |-> raw]

getScheme(raw) == getSchemeFrom(raw, 1)

\* the byte a %XY escape of the inputs decodes to
HexByte(x, y) ==
    IF <<x, y>> = <<"2", "f">> THEN "/"
    ELSE IF <<x, y>> = <<"2", "e">> THEN "."
    ELSE IF <<x, y>> = <<"2", "5">> THEN "%"
    ELSE "?"

\* unescape(s, encodePath): [ok, s]
RECURSIVE unescapePath(_)
unescapePath(s) ==
    IF s = <<>> THEN [ok |-> TRUE, s |-> <<>>]
    ELSE IF s[1] = "%" THEN
        IF Len(s) >= 3 /\ s[2] \in HexChars /\ s[3] \in HexChars
        THEN LET r == unescapePath(SubSeq(s, 4, Len(s)))
             IN  [ok |-> r.ok, s |-> <<HexByte(s[2], s[3])>> \o r.s]
        ELSE [ok |-> FALSE, s |-> <<>>]
    ELSE LET r == unescapePath(Tail(s))
         IN  [ok |-> r.ok, s |-> <<s[1]>> \o r.s]

\* validOptionalPort
validOptionalPort(port) ==
    \/ port = <<>>
    \/ /\ port[1] = ":"
       /\ \A i \in 2..Len(port) : port[i] \in Digits

\* in a host only %25 and the escapes of non-ASCII bytes are accepted
validHostEscapes(host) ==
    \A j \in 1..Len(host) : host[j] = "%" =>
        /\ j + 2 <= Len(host)
        /\ host[j + 1] \in HexChars
        /\ host[j + 2] \in HexChars
        /\ (host[j + 1] \in {"8", "a", "b", "c", "d", "e", "f"}
            \/ <<host[j + 1], host[j + 2]>> = <<"2", "5">>)

\* the part of host from its last colon on ("" without a colon)
colonPort(host, i) == IF i = 0 THEN <<>> ELSE SubSeq(host, i, Len(host))

\* parseHost (no userinfo, no IP literal): [ok, host]
parseHost(authority) ==
    IF /\ validOptionalPort(colonPort(authority, LastIndex(authority, StrColon)))
       /\ validHostEscapes(authority)
    THEN [ok |-> TRUE, host |-> unescapePath(authority).s]
    ELSE [ok |-> FALSE, host |-> <<>>]

\* the *URL returned by url.Parse, as [ok, Scheme, Host, Path, Opaque];
\* ok is FALSE when url.Parse returns an error
BadURL == [ok |-> FALSE, Scheme |-> <<>>, Host |-> <<>>, Path |-> <<>>, Opaque |-> <<>>]

\* url.setPath: p is the unescaped path
setPath(scheme, host, p) ==
    IF ~p.ok THEN BadURL
    ELSE [ok |-> TRUE, Scheme |-> scheme, Host |-> host, Path |-> p.s, Opaque |-> <<>>]

\* the URL given the parsed authority h and the raw path
withAuthority(scheme, h, pathRaw) ==
    IF ~h.ok THEN BadURL ELSE setPath(scheme, h.host, unescapePath(pathRaw))

\* authority, rest = rest[2:] cut at its first "/" (found at cut, 0 if none)
splitAuthority(scheme, s, cut) ==
    IF cut = 0 THEN withAuthority(scheme, parseHost(s), <<>>)
    ELSE withAuthority(scheme, parseHost(SubSeq(s, 1, cut - 1)), SubSeq(s, cut, Len(s)))

\* s up to its first "/" (found at slash, 0 if none)
firstSegment(s, slash) == IF slash = 0 THEN s ELSE SubSeq(s, 1, slash - 1)

\* parse, after getScheme returned g
parseRest(g) ==
    IF ~g.ok THEN BadURL
    ELSE IF ~HasPrefix(g.rest, StrSlash) /\ g.scheme # <<>>
    THEN [ok |-> TRUE, Scheme |-> g.scheme, Host |-> <<>>, Path |-> <<>>, Opaque |-> g.rest]
    ELSE IF /\ ~HasPrefix(g.rest, StrSlash)
            /\ Contains(firstSegment(g.rest, Index(g.rest, StrSlash)), StrColon)
    THEN BadURL
    ELSE IF /\ HasPrefix(g.rest, <<"/", "/">>)
            /\ (g.scheme # <<>> \/ ~HasPrefix(g.rest, <<"/", "/", "/">>))
    THEN splitAuthority(g.scheme, SubSeq(g.rest, 3, Len(g.rest)),
                        Index(SubSeq(g.rest, 3, Len(g.rest)), StrSlash))
    ELSE setPath(g.scheme, <<>>, unescapePath(g.rest))

\* url.Parse
Parse(raw) == parseRest(getScheme(raw))

\* the host without a valid port, given the place i of its last colon
stripPort(host, i) ==
    IF i # 0 /\ validOptionalPort(SubSeq(host, i, Len(host)))
    THEN SubSeq(host, 1, i - 1)
    ELSE host

\* (*URL).Hostname
Hostname(u) == stripPort(u.Host, LastIndex(u.Host, StrColon))

(***************************************************************************)
(* normalizeURL(URL) (s string, err error)                                 *)
(***************************************************************************)
\* path := u.Hostname(); if path == "" { path = strings.Replace(u.Path, "/", "", -1) }
hostOrPath(u, host) ==
    IF host = <<>> THEN Replace(u.Path, StrSlash, <<>>, -1) ELSE host

\* faulty variant of schemeOrHttp: http whatever the scheme of the input
schemeAlwaysHttp(scheme) == StrHttp

\* scheme := u.Scheme; if scheme == "" { scheme = "http" }
schemeOrHttp(scheme) == IF scheme = <<>> THEN StrHttp ELSE scheme

\* s = fmt.Sprintf("%s:%s", scheme, path), or with "://" when path holds none
joinScheme(scheme, path) ==
    IF ~Contains(path, StrSchemeSep)
    THEN scheme \o StrSchemeSep \o path
    ELSE scheme \o StrColon \o path

\* normalizeURL after url.Parse returned u and path was taken from it
normalizeParsed(u, path) ==
    IF Len(Split(path, StrDot)) < 2 THEN [s |-> <<>>, err |-> ErrDomainMissing]
    ELSE IF Count(u.Path, StrSlash) > 1
    THEN [s |-> joinScheme(schemeOrHttp(u.Scheme), path) \o u.Path, err |-> Nil]
    ELSE [s |-> joinScheme(schemeOrHttp(u.Scheme), path), err |-> Nil]

\* normalizeURL after url.Parse returned u
normalizeFrom(u) ==
    IF ~u.ok THEN [s |-> <<>>, err |-> ErrParse]
    ELSE normalizeParsed(u, hostOrPath(u, Hostname(u)))

\* faulty variant of normalizeURL: the test of URL == "" is left out
normalizeURLNoEmptyTest(URL) == normalizeFrom(Parse(URL))

normalizeURL(URL) ==
    IF URL = <<>> THEN [s |-> <<>>, err |-> ErrURLEmpty]
    ELSE normalizeFrom(Parse(URL))

(***************************************************************************)
(* linksToCheck(baseURL, limit).  doc is what goquery.NewDocument(baseURL) *)
(* produced: DocError, or a Page of the href values of its "body a"        *)
(* elements in document order.  The return inside the Each callback ends   *)
(* that one callback invocation only, so every anchor is visited.          *)
(***************************************************************************)
DocError == [err |-> TRUE, anchors |-> <<>>]
Page(anchors) == [err |-> FALSE, anchors |-> anchors]

\* faulty variant of eachAnchor: a link is appended whether or not the list
\* holds it already
RECURSIVE eachAnchorNoDedup(_, _, _, _)
eachAnchorNoDedup(baseURL, lim, anchors, moreURLS) ==
    IF anchors = <<>> THEN moreURLS
    ELSE IF Contains(Head(anchors), baseURL)
    THEN eachAnchorNoDedup(baseURL, lim, Tail(anchors),
                           Append(moreURLS, Head(anchors)))
    ELSE eachAnchorNoDedup(baseURL, lim, Tail(anchors), moreURLS)

RECURSIVE eachAnchor(_, _, _, _)
eachAnchor(baseURL, limit, anchors, moreURLS) ==
    IF anchors = <<>> THEN moreURLS
    ELSE LET link == Head(anchors)
             more == IF Contains(link, baseURL) /\ ~inSlice(link, moreURLS)
                     THEN Append(moreURLS, link)
                     ELSE moreURLS
         IN  eachAnchor(baseURL, limit, Tail(anchors), more)

\* faulty variant of linksToCheck: the limit is not tested against 0
linksToCheckNoZeroTest(baseURL, lim, doc) ==
    IF doc.err THEN <<baseURL>>
    ELSE eachAnchor(baseURL, lim, doc.anchors, <<baseURL>>)

\* faulty variant of linksToCheck: the list starts empty
linksToCheckFromEmpty(baseURL, lim, doc) ==
    IF lim = 0 THEN <<baseURL>>
    ELSE IF doc.err THEN <<>>
    ELSE eachAnchor(baseURL, lim, doc.anchors, <<>>)

linksToCheck(baseURL, limit, doc) ==
    IF limit = 0 THEN <<baseURL>>
    ELSE IF doc.err THEN <<baseURL>>
    ELSE eachAnchor(baseURL, limit, doc.anchors, <<baseURL>>)

(***************************************************************************)
(* Inputs of the scan operations.                                          *)
(***************************************************************************)
SearchOp == "Search"
RegxOp == "SearchWithRegx"
EmailOp == "SearchForEmail"
Ops == {SearchOp, RegxOp, EmailOp}

\* URL arguments: "", "a" (no domain), "%z" (bad escape), "a.co", "https://a.co"
UrlEmpty == <<>>
UrlNoDomain == <<"a">>
UrlBadEscape == <<"%", "z">>
UrlPlain == <<"a", ".", "c", "o">>
UrlSecure == <<"h", "t", "t", "p", "s", ":", "/", "/", "a", ".", "c", "o">>
UrlInputs == {UrlEmpty, UrlNoDomain, UrlBadEscape, UrlPlain, UrlSecure}

\* pages served for baseURL: no anchor, a same-site anchor, or a same-site
\* anchor after a foreign one
PathX == <<"/", "x">>
Foreign == <<"h", "t", "t", "p", ":", "/", "/", "z", ".", "c", "o">>
Docs(baseURL) ==
    {DocError, Page(<<>>), Page(<<baseURL \o PathX>>),
     Page(<<Foreign, baseURL \o PathX, baseURL>>)}

\* what the fetched body holds: no match of the pattern, or a match with
\* the context extracted for it (the markup tag that encloses the match; for
\* SearchForEmail, the submatches that pass the filters)
Bodies == {[match |-> FALSE, ctx |-> FALSE],
           [match |-> TRUE, ctx |-> TRUE]}

\* the keyword stored with a result
KeywordOf(o) ==
    IF o = SearchOp THEN "keyword" ELSE IF o = RegxOp THEN "regexp" ELSE ""

(***************************************************************************)
(* State.                                                                  *)
(***************************************************************************)
VARIABLES
    limit,        \* cap(sc.sema): concurrentLimit of NewScanner
    depthLimit,   \* sc.depthLimit
    sema,         \* len(sc.sema): number of slots taken
    results,      \* sc.results
    mxt,          \* sc.mxt: 0 when unlocked, else the call holding it
    crashed,      \* the process died of an unrecovered panic
    calls,        \* per scan call: position, locals and history
    caller,       \* the goroutine that reads the results: position, the
                  \* Results value it holds, whether that value still shares
                  \* its backing array with sc.results
    reads,        \* history: the reads of sc.results made so far
    link,         \* one run of linksToCheck: arguments, page and result
    bufs,         \* the byte buffers allocated by the pool's New
    free,         \* the buffers lying in the pool
    users,        \* the goroutines using the pool: position and buffer held
    match,        \* one fetched page put to a scan operation's matching:
                  \* the operation, its pattern, the page and what is saved
    norm,         \* one run of normalizeURL and of normalizeURL on what it
                  \* returned: argument and the two returns
    retried,      \* one link whose first GET failed: the operation, the
                  \* link and the URL of the second GET
    WasFound      \* sc.WasFound of the Scanner revision that keeps a map

vars == <<limit, depthLimit, sema, results, mxt, crashed, calls,
          caller, reads, link, bufs, free, users, match, norm, retried,
          WasFound>>

\* the state of what takes no part in a scan call
linkVars == <<link>>
poolVars == <<bufs, free, users>>
pureVars == <<match, norm, retried, WasFound>>
outside == <<caller, reads, linkVars, poolVars, pureVars>>

NoCaller == [pc |-> "start", res |-> <<>>, shared |-> FALSE, before |-> <<>>]
NoLink == [pc |-> "idle", baseURL |-> <<>>, lim |-> 0, doc |-> DocError,
           moreURLS |-> <<>>]

scanVars == <<limit, depthLimit, sema, results, mxt, crashed, calls>>

\* a Scanner on which no scan call is issued
ScanIdle ==
    /\ limit = 0
    /\ depthLimit = 0
    /\ sema = 0
    /\ results = <<>>
    /\ mxt = 0
    /\ crashed = FALSE
    /\ calls = <<>>

CallerIdle == caller = NoCaller /\ reads = <<>>
LinkIdle == link = NoLink
PoolIdle == bufs = <<>> /\ free = {} /\ users = <<>>
NoMatch == [pc |-> "idle"]
NoNorm == [pc |-> "idle"]
NoRetried == [pc |-> "idle"]
PureIdle ==
    /\ match = NoMatch
    /\ norm = NoNorm
    /\ retried = NoRetried
    /\ WasFound = <<>>

\* the calls issued on the Scanner
Calls == DOMAIN calls

NoCall ==
    [pc |-> "idle", op |-> SearchOp, arg |-> <<>>, URL |-> <<>>,
     urls |-> <<>>, i |-> 0, url |-> <<>>, res |-> "nil", ret |-> "none",
     panicking |-> FALSE, snap |-> <<>>, pending |-> <<>>, after |-> "none",
     retAfter |-> "none",
     \* history, read by the properties only
     acquired |-> 0, released |-> 0, discovered |-> FALSE, gets |-> 0,
     attempts |-> <<>>, recorded |-> <<>>, failedAt |-> 0,
     docFailed |-> FALSE, held |-> 0, written |-> 0]

\* an enumeration of the arguments of a call
Rank(o, u) ==
    LET ro == IF o = SearchOp THEN 0 ELSE IF o = RegxOp THEN 1 ELSE 2
        ru == IF u = UrlEmpty THEN 0 ELSE IF u = UrlNoDomain THEN 1
              ELSE IF u = UrlBadEscape THEN 2 ELSE IF u = UrlPlain THEN 3 ELSE 4
    IN  5 * ro + ru

\* The state after NewScanner(limit, depthLimit, logging), with the calls the
\* callers are about to issue.  The calls are interchangeable, so they are
\* numbered in the order of their arguments.  The callers of one Scanner run
\* one operation on several URLs, as main.go does, or several operations on
\* one URL.  linksToCheck only tests depthLimit against 0, so one depth other
\* than 0 stands for all of them; a gate wider than the number of calls
\* never blocks, so the limit goes up to the number of calls.
Init ==
    /\ limit \in 0..MaxLimit
    /\ depthLimit \in {0, MaxDepth}
    /\ sema = 0
    /\ results = <<>>
    /\ mxt = 0
    /\ crashed = FALSE
    /\ \E n \in {IF depthLimit = 0 THEN NumCalls ELSE NumCrawls} :
       \E o \in [1..n -> Ops], u \in [1..n -> UrlInputs] :
          /\ limit <= n
          /\ \A c \in 1..(n - 1) : Rank(o[c], u[c]) <= Rank(o[c + 1], u[c + 1])
          /\ \/ \A c, d \in 1..n : o[c] = o[d]
             \/ \A c, d \in 1..n : u[c] = u[d]
          /\ calls = [c \in 1..n |->
                        [NoCall EXCEPT !.op = o[c], !.arg = u[c], !.URL = u[c]]]
    /\ CallerIdle
    /\ LinkIdle
    /\ PoolIdle
    /\ PureIdle

Result(URL, keyword, found, chunk) ==
    [URL |-> URL, Found |-> found, Keyword |-> keyword, Context |-> chunk]

(***************************************************************************)
(* Operations.  Every action is one step of scan call c; a step is not     *)
(* taken once the process has died.                                        *)
(***************************************************************************)
Set(c, r) == calls' = [calls EXCEPT ![c] = r]

\* a caller invokes one of the three scan operations
Call(c) ==
    /\ ~crashed
    /\ calls[c].pc = "idle"
    /\ Set(c, [calls[c] EXCEPT !.pc = "load"])
    /\ UNCHANGED <<limit, depthLimit, sema, results, mxt, crashed, outside>>

\* faulty variant of Load: the send never blocks
LoadUnbounded(c) ==
    /\ ~crashed
    /\ calls[c].pc = "load"
    /\ sema' = sema + 1
    /\ Set(c, [calls[c] EXCEPT !.pc = "normalize", !.acquired = @ + 1])
    /\ UNCHANGED <<limit, depthLimit, results, mxt, crashed, outside>>

\* faulty variant of Load: a send on a channel without a buffer goes through
LoadThroughUnbuffered(c) ==
    /\ ~crashed
    /\ calls[c].pc = "load"
    /\ (sema < limit \/ limit = 0)
    /\ sema' = sema + 1
    /\ Set(c, [calls[c] EXCEPT !.pc = "normalize", !.acquired = @ + 1])
    /\ UNCHANGED <<limit, depthLimit, results, mxt, crashed, outside>>

\* sc.sema.load(): s <- struct{}{} blocks while the channel is full
Load(c) ==
    /\ ~crashed
    /\ calls[c].pc = "load"
    /\ sema < limit
    /\ sema' = sema + 1
    /\ Set(c, [calls[c] EXCEPT !.pc = "normalize", !.acquired = @ + 1])
    /\ UNCHANGED <<limit, depthLimit, results, mxt, crashed, outside>>

\* the locals of call c once normalizeURL returned n without error.
\* SearchWithRegx has no link discovery: it fetches the normalized URL only,
\* which is kept here as the one-element list of the links it processes
\* normalizeURL on the arguments of the calls, worked out once
normalizeURLOf == [URL \in UrlInputs |-> normalizeURL(URL)]

Normalized(c, n) ==
    IF calls[c].op = RegxOp
    THEN [calls[c] EXCEPT !.URL = n.s, !.pc = "get", !.urls = <<n.s>>,
                          !.attempts = <<<<>>>>, !.recorded = <<0>>,
                          !.i = 1, !.url = n.s]
    ELSE [calls[c] EXCEPT !.URL = n.s, !.pc = "discover"]

\* faulty variant of Normalize: the release is not deferred, so the early
\* return skips it
NormalizeNoDefer(c) ==
    LET n == normalizeURL(calls[c].URL)
    IN  /\ ~crashed
        /\ calls[c].pc = "normalize"
        /\ IF n.err # Nil
           THEN Set(c, [calls[c] EXCEPT !.pc = "done", !.URL = n.s, !.ret = n.err])
           ELSE Set(c, Normalized(c, n))
        /\ UNCHANGED <<limit, depthLimit, sema, results, mxt, crashed, outside>>

\* faulty variant of Normalize: the normalization error is ignored and the
\* scan goes on
NormalizeIgnoreErr(c) ==
    LET n == normalizeURL(calls[c].URL)
    IN  /\ ~crashed
        /\ calls[c].pc = "normalize"
        /\ Set(c, Normalized(c, n))
        /\ UNCHANGED <<limit, depthLimit, sema, results, mxt, crashed, outside>>

\* URL, err = normalizeURL(URL); if err != nil { return err }
Normalize(c) ==
    LET n == normalizeURLOf[calls[c].URL]
    IN  /\ ~crashed
        /\ calls[c].pc = "normalize"
        /\ IF n.err # Nil
           THEN Set(c, [calls[c] EXCEPT !.pc = "release", !.URL = n.s, !.ret = n.err])
           ELSE Set(c, Normalized(c, n))
        /\ UNCHANGED <<limit, depthLimit, sema, results, mxt, crashed, outside>>

\* faulty variant of Discover: a failed page fetch ends the call
DiscoverAbortOnError(c) ==
    /\ ~crashed
    /\ calls[c].pc = "discover"
    /\ \E doc \in Docs(calls[c].URL) :
          LET l == linksToCheck(calls[c].URL, depthLimit, doc)
              k == [calls[c] EXCEPT
                    !.pc = "get", !.urls = l, !.i = 1, !.url = l[1],
                    !.attempts = [j \in 1..Len(l) |-> <<>>],
                    !.recorded = [j \in 1..Len(l) |-> 0],
                    !.discovered = TRUE,
                    !.docFailed = (depthLimit # 0 /\ doc = DocError),
                    !.gets = IF depthLimit = 0 THEN @ ELSE @ + 1]
          IN  IF k.docFailed
              THEN Set(c, [k EXCEPT !.pc = "release", !.ret = ErrTransport])
              ELSE Set(c, k)
    /\ UNCHANGED <<limit, depthLimit, sema, results, mxt, crashed, outside>>

\* urls := linksToCheck(URL, sc.depthLimit); the page is fetched
\* (goquery.NewDocument) only when the limit is not 0
Discover(c) ==
    /\ ~crashed
    /\ calls[c].pc = "discover"
    /\ \E doc \in Docs(calls[c].URL) :
          LET l == linksToCheck(calls[c].URL, depthLimit, doc)
          IN  Set(c, [calls[c] EXCEPT
                    !.pc = "get", !.urls = l, !.i = 1, !.url = l[1],
                    !.attempts = [j \in 1..Len(l) |-> <<>>],
                    !.recorded = [j \in 1..Len(l) |-> 0],
                    !.discovered = TRUE,
                    !.docFailed = (depthLimit # 0 /\ doc = DocError),
                    !.gets = IF depthLimit = 0 THEN @ ELSE @ + 1])
    /\ UNCHANGED <<limit, depthLimit, sema, results, mxt, crashed, outside>>

\* the value of the Context field: a string, or the list of SearchForEmail
StringContext(v) == [kind |-> "string", v |-> v]
ListContext(v) == [kind |-> "list", v |-> v]

\* call k with one more GET attempt on its current link
Attempted(k, ok) ==
    [k EXCEPT !.attempts[k.i] = Append(@, [url |-> k.url, ok |-> ok]),
              !.gets = @ + 1]

\* url = strings.Replace(url, "http", "https", n): n is 1 in Search and -1
\* in SearchForEmail and SearchWithRegx
retryURL(op, url) ==
    Replace(url, StrHttp, StrHttps, IF op = SearchOp THEN 1 ELSE -1)

\* faulty variant of Get: the retry is issued whatever the scheme of the URL
GetAlwaysRetry(c) ==
    /\ ~crashed
    /\ calls[c].pc = "get"
    /\ \E ok \in BOOLEAN :
          LET k == Attempted(calls[c], ok)
          IN  IF ok
              THEN Set(c, [k EXCEPT !.res = "resp", !.pc = "match"])
              ELSE Set(c, [k EXCEPT
                        !.url = retryURL(k.op, k.url),
                        !.pc = "retry"])
    /\ UNCHANGED <<limit, depthLimit, sema, results, mxt, crashed, outside>>

\* res, err := sc.client.Get(url) and the handling of its failure.  When the
\* URL contains "https:" no retry is made and control reaches
\* defer res.Body.Close() with res == nil: a nil dereference, so the call
\* panics and its deferred functions run.
Get(c) ==
    /\ ~crashed
    /\ calls[c].pc = "get"
    /\ \E ok \in BOOLEAN :
          LET k == Attempted(calls[c], ok)
          IN  IF ok
              THEN Set(c, [k EXCEPT !.res = "resp", !.pc = "match"])
              ELSE IF ~Contains(k.url, StrHttpsColon)
              THEN Set(c, [k EXCEPT
                        !.url = retryURL(k.op, k.url),
                        !.pc = "retry"])
              ELSE Set(c, [k EXCEPT !.pc = "release", !.panicking = TRUE,
                                    !.failedAt = k.i])
    /\ UNCHANGED <<limit, depthLimit, sema, results, mxt, crashed, outside>>

\* res, err = sc.client.Get(url) over https.  On failure every operation
\* calls saveResult(url, keyword, false, ""); Search and SearchForEmail then
\* return ErrUnresolvedOrTimedOut, SearchWithRegx returns err.  On success
\* Search goes on to match the body, while SearchForEmail returns
\* ErrUnresolvedOrTimedOut and SearchWithRegx returns err (nil) at once.
Retry(c) ==
    /\ ~crashed
    /\ calls[c].pc = "retry"
    /\ \E ok \in BOOLEAN :
          LET k == Attempted(calls[c], ok)
          IN  IF ~ok
              THEN Set(c, [k EXCEPT
                        !.pc = "save",
                        !.pending = Result(k.url, KeywordOf(k.op), FALSE, StringContext("")),
                        !.after = "return",
                        !.retAfter = IF k.op = RegxOp THEN ErrTransport
                                     ELSE ErrUnresolvedOrTimedOut,
                        !.failedAt = k.i])
              ELSE IF k.op = SearchOp
              THEN Set(c, [k EXCEPT !.res = "resp", !.pc = "match"])
              ELSE Set(c, [k EXCEPT
                        !.res = "resp", !.pc = "release",
                        !.ret = IF k.op = RegxOp THEN Nil
                                ELSE ErrUnresolvedOrTimedOut])
    /\ UNCHANGED <<limit, depthLimit, sema, results, mxt, crashed, outside>>

\* buf := sc.buffer.Get(); defer sc.buffer.Put(buf): the body is read into
\* a pooled buffer and matched, and the result is handed to saveResult
Match(c) ==
    /\ ~crashed
    /\ calls[c].pc = "match"
    /\ \E b \in Bodies :
          LET k == calls[c]
              context == IF k.op = EmailOp
                         THEN ListContext(IF b.match /\ b.ctx THEN <<"email">> ELSE <<>>)
                         ELSE StringContext(IF b.match /\ b.ctx THEN "<tag>" ELSE "")
          IN  Set(c, [k EXCEPT
                    !.pc = "save",
                    !.held = @ + 1,
                    !.pending = Result(k.url, KeywordOf(k.op), b.match, context),
                    !.after = IF k.op = RegxOp THEN "return" ELSE "loop",
                    !.retAfter = Nil])
    /\ UNCHANGED <<limit, depthLimit, sema, results, mxt, crashed, outside>>

\* saveResult: sc.mxt.Lock() and the load of sc.results for the append
saveResultLock(c) ==
    /\ ~crashed
    /\ calls[c].pc = "save"
    /\ mxt = 0
    /\ mxt' = c
    /\ Set(c, [calls[c] EXCEPT !.pc = "append", !.snap = results])
    /\ UNCHANGED <<limit, depthLimit, sema, results, crashed, outside>>

\* cap of a slice that append grew from nil to n elements: the runtime
\* doubles the array of a small slice when it is full
RECURSIVE grow(_, _)
grow(n, cap) == IF cap >= n THEN cap ELSE grow(n, 2 * cap)

Cap(n) == IF n = 0 THEN 0 ELSE grow(n, 1)

\* the caller's Results value after an append to sc.results of length n:
\* append moves sc.results to a new array when the old one is full, and the
\* value handed out before keeps the old one
afterAppend(n) ==
    IF caller.shared /\ n = Cap(n) THEN [caller EXCEPT !.shared = FALSE]
    ELSE caller

\* faulty variant of saveResultStore: the result is put in front
saveResultStoreInFront(c) ==
    LET k == [calls[c] EXCEPT !.recorded[calls[c].i] = @ + 1, !.snap = <<>>,
                              !.pending = <<>>, !.after = "none",
                              !.retAfter = "none"]
        old == calls[c]
    IN  /\ ~crashed
        /\ old.pc = "append"
        /\ results' = <<old.pending>> \o old.snap
        /\ caller' = afterAppend(Len(old.snap))
        /\ mxt' = 0
        /\ IF old.after = "loop" /\ old.i < Len(old.urls)
           THEN Set(c, [k EXCEPT !.pc = "get", !.i = old.i + 1,
                                 !.url = old.urls[old.i + 1], !.res = "nil"])
           ELSE Set(c, [k EXCEPT !.pc = "release", !.ret = old.retAfter])
        /\ UNCHANGED <<limit, depthLimit, sema, crashed, reads, linkVars, pureVars, poolVars>>

\* faulty variant of saveResultStore: saveResult returns without Unlock
saveResultStoreNoUnlock(c) ==
    /\ ~crashed
    /\ calls[c].pc = "append"
    /\ results' = Append(calls[c].snap, calls[c].pending)
    /\ caller' = afterAppend(Len(calls[c].snap))
    /\ mxt' = mxt
    /\ Set(c, [calls[c] EXCEPT !.recorded[calls[c].i] = @ + 1, !.snap = <<>>,
                               !.pending = <<>>, !.after = "none",
                               !.retAfter = "none", !.pc = "release",
                               !.ret = calls[c].retAfter])
    /\ UNCHANGED <<limit, depthLimit, sema, crashed, reads, linkVars, pureVars, poolVars>>

\* saveResult: the store of the appended slice and sc.mxt.Unlock(); then the
\* caller returns, or goes on with the next link of the range loop
saveResultStore(c) ==
    LET k == [calls[c] EXCEPT !.recorded[calls[c].i] = @ + 1, !.snap = <<>>,
                              !.pending = <<>>, !.after = "none",
                              !.retAfter = "none"]
        old == calls[c]
    IN  /\ ~crashed
        /\ old.pc = "append"
        /\ results' = Append(old.snap, old.pending)
        /\ caller' = afterAppend(Len(old.snap))
        /\ mxt' = 0
        /\ IF old.after = "loop" /\ old.i < Len(old.urls)
           THEN Set(c, [k EXCEPT !.pc = "get", !.i = old.i + 1,
                                 !.url = old.urls[old.i + 1], !.res = "nil"])
           ELSE Set(c, [k EXCEPT !.pc = "release", !.ret = old.retAfter])
        /\ UNCHANGED <<limit, depthLimit, sema, crashed, reads, linkVars, pureVars, poolVars>>

\* The deferred functions run on return and while a panic unwinds: the
\* sc.buffer.Put(buf) and res.Body.Close() of every link fetched, then
\* sc.sema.release().  The unrecovered panic then ends the process.
Release(c) ==
    /\ ~crashed
    /\ calls[c].pc = "release"
    /\ sema > 0
    /\ sema' = sema - 1
    /\ crashed' = calls[c].panicking
    /\ Set(c, [calls[c] EXCEPT
              !.pc = IF calls[c].panicking THEN "crashed" ELSE "done",
              !.held = 0,
              !.released = @ + 1])
    /\ UNCHANGED <<limit, depthLimit, results, mxt, outside>>

Next ==
    \E c \in Calls :
        \/ Call(c)
        \/ Load(c)
        \/ Normalize(c)
        \/ Discover(c)
        \/ Get(c)
        \/ Retry(c)
        \/ Match(c)
        \/ saveResultLock(c)
        \/ saveResultStore(c)
        \/ Release(c)

Spec == Init /\ [][Next]_vars

(***************************************************************************)
(* Vocabulary of the properties.                                           *)
(***************************************************************************)
\* call c has passed sema.load() and has not yet executed sema.release()
InGate(c) == calls[c].pc \notin {"idle", "load", "done", "crashed"}

\* call c is over: it returned, or it panicked
Exited(c) == calls[c].pc \in {"done", "crashed"}

GateHolders == {c \in Calls : InGate(c)}

\* the URL has the https scheme
IsHTTPS(u) == HasPrefix(u, StrHttpsColon)

RECURSIVE SumSeq(_)
SumSeq(q) == IF q = <<>> THEN 0 ELSE Head(q) + SumSeq(Tail(q))

\* the links of call c for which at least one GET was issued
Processed(c) == {j \in DOMAIN calls[c].attempts : calls[c].attempts[j] # <<>>}

\* the number of results call c has appended
Appended(c) == SumSeq(calls[c].recorded)

RECURSIVE SumProcessed(_)
SumProcessed(cs) ==
    IF cs = {} THEN 0
    ELSE LET c == CHOOSE x \in cs : TRUE
         IN  Cardinality(Processed(c)) + SumProcessed(cs \ {c})

NormalizationErrors == {ErrURLEmpty, ErrParse, ErrDomainMissing}

\* the error normalizeURL returns for each URL argument
NormalizeErr == [u \in UrlInputs |-> normalizeURL(u).err]

(***************************************************************************)
(* Properties.                                                             *)
(***************************************************************************)

\* C1: with a concurrency limit N >= 1, the number of calls that have passed
\* sema.load() and not yet executed sema.release() is at most N in every
\* reachable state.
GateNeverExceedsLimit ==
    limit >= 1 => Cardinality(GateHolders) <= limit

\* C1 witness: the gate is full and a further call is blocked in load()
GateFullAndCallBlocked ==
    /\ limit >= 1
    /\ Cardinality(GateHolders) = limit
    /\ \E c \in Calls : calls[c].pc = "load"

\* C2: every call acquires the gate exactly once, before anything else, and
\* releases it exactly once at exit, on every exit path; so the gate is empty
\* whenever no call is in progress.
GateBalanced ==
    /\ \A c \in Calls :
          /\ calls[c].pc \in {"idle", "load"} =>
                calls[c].acquired = 0 /\ calls[c].released = 0
          /\ InGate(c) => calls[c].acquired = 1 /\ calls[c].released = 0
          /\ Exited(c) => calls[c].acquired = 1 /\ calls[c].released = 1
    /\ (\A c \in Calls : ~InGate(c)) => sema = 0

\* C2 witness: all calls are over, one on a normalization error and one on a
\* fetch failure, and the gate is empty
AllExitedOnErrorPaths ==
    /\ \A c \in Calls : calls[c].pc = "done"
    /\ \E c \in Calls : calls[c].ret \in NormalizationErrors
    /\ \E c \in Calls : calls[c].failedAt # 0
    /\ sema = 0

\* C3: when normalizeURL fails, the call goes straight to the release: no
\* link discovery, no HTTP request, nothing appended, and the normalization
\* error is what the caller gets.
NormalizeErrorFailsFast ==
    \A c \in Calls :
        LET k == calls[c]
        IN  NormalizeErr[k.arg] # Nil =>
              /\ k.pc \in {"idle", "load", "normalize", "release", "done"}
              /\ ~k.discovered
              /\ k.gets = 0
              /\ k.urls = <<>>
              /\ k.recorded = <<>>
              /\ k.pending = <<>>
              /\ k.pc \in {"release", "done"} => k.ret = NormalizeErr[k.arg]

\* C3 witness: calls have returned a parse error and a missing-domain error
\* and the result set is still empty
ReturnedNormalizationErrors ==
    /\ \E c \in Calls : calls[c].pc = "done" /\ calls[c].ret = ErrParse
    /\ \E c \in Calls : calls[c].pc = "done" /\ calls[c].ret = ErrDomainMissing
    /\ results = <<>>

\* C4: a link is attempted at most twice; the second attempt is made only
\* after the first one failed and only for a URL that is not https; an https
\* URL is attempted exactly once.
AtMostTwoAttempts ==
    \A c \in Calls :
        LET k == calls[c]
        IN  \A j \in DOMAIN k.attempts :
              LET a == k.attempts[j]
              IN  /\ Len(a) <= 2
                  /\ Len(a) = 2 =>
                        /\ ~a[1].ok
                        /\ a[1].url = k.urls[j]
                        /\ ~IsHTTPS(k.urls[j])
                  /\ (IsHTTPS(k.urls[j]) /\ (j < k.i \/ (j = k.i /\ k.pc # "get"))) =>
                        Len(a) = 1

\* C4 witness: one call has made both attempts on a link and both failed,
\* another has made its single attempt on an https link and it failed
RetriedAndSingleAttempt ==
    /\ \E c \in Calls : \E j \in DOMAIN calls[c].attempts :
          /\ Len(calls[c].attempts[j]) = 2
          /\ ~calls[c].attempts[j][2].ok
    /\ \E c \in Calls : \E j \in DOMAIN calls[c].attempts :
          /\ IsHTTPS(calls[c].urls[j])
          /\ Len(calls[c].attempts[j]) = 1
          /\ ~calls[c].attempts[j][1].ok
          /\ calls[c].pc # "get"

\* C5: when the fetch of a link fails for good, the call has appended exactly
\* one result for that link, with Found=false and an empty Context, by the
\* time it is over.
FailedFetchIsRecorded ==
    \A c \in Calls :
        LET k == calls[c]
        IN  (Exited(c) /\ k.failedAt # 0) =>
              /\ k.recorded[k.failedAt] = 1
              /\ \E r \in 1..Len(results) :
                    /\ results[r].URL = k.url
                    /\ ~results[r].Found
                    /\ results[r].Context = StringContext("")

\* C6: a call that returned no error has appended exactly one result for
\* each link it processed; a call that returned an error has appended at
\* most one result in total.
OneResultPerLinkOrError ==
    \A c \in Calls :
        LET k == calls[c]
        IN  k.pc = "done" =>
              /\ k.ret = Nil => \A j \in Processed(c) : k.recorded[j] = 1
              /\ k.ret # Nil => Appended(c) <= 1

\* C7: no scan operation panics, whatever the URL and the fetch outcomes.
NeverPanics ==
    /\ ~crashed
    /\ \A c \in Calls : ~calls[c].panicking

\* C8: after the fetch of link i failed for good, the call fetches no later
\* link, records no result for a later link, and returns an error.
FetchFailureAborts ==
    \A c \in Calls :
        LET k == calls[c]
        IN  k.failedAt # 0 =>
              /\ k.i = k.failedAt
              /\ \A j \in DOMAIN k.attempts :
                    j > k.failedAt => k.attempts[j] = <<>> /\ k.recorded[j] = 0
              /\ ~k.panicking
              /\ k.pc = "done" => k.ret # Nil

\* C9: when all fetch attempts for a link failed, the call returns the
\* sentinel ErrUnresolvedOrTimedOut.
SentinelOnFetchFailure ==
    \A c \in Calls :
        (calls[c].pc = "done" /\ calls[c].failedAt # 0) =>
            calls[c].ret = ErrUnresolvedOrTimedOut

\* C10: whenever no scan call is in progress, the result set holds as many
\* results as links were processed by the completed calls.
ResultsCountProcessedLinks ==
    (\A c \in Calls : calls[c].pc \in {"idle", "done"}) =>
        Len(results) = SumProcessed({c \in Calls : calls[c].pc = "done"})

\* the URLs of the results call c has appended, in the order of its links
RECURSIVE RecordedURLs(_, _)
RecordedURLs(k, j) ==
    IF j > Len(k.urls) THEN <<>>
    ELSE IF k.recorded[j] = 0 THEN RecordedURLs(k, j + 1)
    ELSE <<k.attempts[j][Len(k.attempts[j])].url>> \o RecordedURLs(k, j + 1)

\* p occurs in q as a subsequence
RECURSIVE IsSubsequence(_, _)
IsSubsequence(p, q) ==
    IF p = <<>> THEN TRUE
    ELSE IF q = <<>> THEN FALSE
    ELSE IF Head(p) = Head(q) THEN IsSubsequence(Tail(p), Tail(q))
    ELSE IsSubsequence(p, Tail(q))

RECURSIVE ResultURLs(_)
ResultURLs(rs) ==
    IF rs = <<>> THEN <<>> ELSE <<Head(rs).URL>> \o ResultURLs(Tail(rs))

\* C13: within one scan call a GET on link j is issued only after a result
\* was recorded for every link before j, the call works on one link at a
\* time, and the results it appended stand in the result set in the order of
\* its links.
LinksInDiscoveryOrder ==
    \A c \in Calls :
        LET k == calls[c]
        IN  /\ \A j \in DOMAIN k.attempts :
                  /\ k.attempts[j] # <<>> =>
                        /\ j <= k.i
                        /\ \A h \in 1..(j - 1) : k.recorded[h] = 1
                  /\ k.recorded[j] # 0 => k.attempts[j] # <<>>
            /\ IsSubsequence(RecordedURLs(k, 1), ResultURLs(results))

\* C13 witness: a call has recorded its second link
SecondLinkRecorded ==
    \E c \in Calls :
        /\ Len(calls[c].urls) >= 2
        /\ calls[c].recorded[1] = 1
        /\ calls[c].recorded[2] = 1
        /\ calls[c].pc = "done"

\* C15: a scan call holds at most one pooled buffer at any time, and none
\* when it starts the fetch of a link.
AtMostOneBufferHeld ==
    \A c \in Calls :
        /\ calls[c].held <= 1
        /\ calls[c].pc = "get" => calls[c].held = 0

DiscoveryFailureNotFatal ==
    \A c \in Calls :
        LET k == calls[c]
        IN  k.docFailed =>
              /\ depthLimit > 0
              /\ k.urls = <<k.URL>>
              /\ k.pc # "get" =>
                    /\ k.attempts[1] # <<>>
                    /\ k.attempts[1][1].url = k.URL
              /\ (k.pc = "done" /\ k.ret = Nil) =>
                    /\ k.recorded = <<1>>
                    /\ \E r \in 1..Len(results) :
                          results[r].URL = k.attempts[1][Len(k.attempts[1])].url

\* C19 witness: a call whose page fetch failed has returned nil after
\* recording the normalized URL
FailedDiscoveryRecorded ==
    \E c \in Calls :
        /\ calls[c].docFailed
        /\ calls[c].pc = "done"
        /\ calls[c].ret = Nil
        /\ calls[c].recorded = <<1>>
        /\ \E r \in 1..Len(results) : results[r].URL = calls[c].URL

(***************************************************************************)
(* linksToCheck on its own: every page of up to MaxAnchors anchors.        *)
(***************************************************************************)
PathY == <<"/", "y">>

\* the href values of the anchors of a page of baseURL
Anchors(baseURL) == {Foreign, baseURL, baseURL \o PathX, baseURL \o PathY}

SeqsUpTo(S, n) == UNION {[1..k -> S] : k \in 0..n}

\* what goquery.NewDocument(baseURL) yields: an error, or the anchors of the
\* page in document order
Pages(baseURL) ==
    {DocError} \cup {Page(a) : a \in SeqsUpTo(Anchors(baseURL), MaxAnchors)}

\* normalized URLs, as the scan operations hand them to linksToCheck
BaseURLs == {normalizeURL(UrlPlain).s, normalizeURL(UrlSecure).s}

InitLinks ==
    /\ \E b \in BaseURLs, l \in 0..MaxLinkLimit :
       \E d \in Pages(b) :
          link = [pc |-> "call", baseURL |-> b, lim |-> l, doc |-> d,
                  moreURLS |-> <<>>]
    /\ ScanIdle
    /\ CallerIdle
    /\ PoolIdle
    /\ PureIdle

\* moreURLS := linksToCheck(baseURL, limit)
CallLinksToCheck ==
    /\ link.pc = "call"
    /\ link' = [link EXCEPT
                  !.pc = "done",
                  !.moreURLS = linksToCheck(link.baseURL, link.lim, link.doc)]
    /\ UNCHANGED <<scanVars, caller, reads, poolVars, pureVars>>

NextLinks == CallLinksToCheck

SpecLinks == InitLinks /\ [][NextLinks]_vars

\* C16: for a limit of at least 1 the list linksToCheck returns has at most
\* limit elements.
LinkLimitEnforced ==
    (link.pc = "done" /\ link.lim >= 1) => Len(link.moreURLS) <= link.lim

\* C18: whatever the limit and the page, discovery failure included, the list
\* linksToCheck returns is not empty and starts with baseURL.
FirstLinkIsBase ==
    link.pc = "done" =>
        /\ link.moreURLS # <<>>
        /\ link.moreURLS[1] = link.baseURL

\* C18 witness: a page whose first anchor is another same-site link has been
\* scanned, and the list holds that link after baseURL
BaseBeforeFirstAnchor ==
    /\ link.pc = "done"
    /\ link.lim >= 1
    /\ ~link.doc.err
    /\ link.doc.anchors # <<>>
    /\ link.doc.anchors[1] = link.baseURL \o PathX
    /\ Len(link.moreURLS) >= 2
    /\ link.moreURLS[1] = link.baseURL
    /\ link.moreURLS[2] = link.baseURL \o PathX

(***************************************************************************)
(* bufferPool on its own: goroutines that Get a buffer, write to it and    *)
(* Put it back, as the scan operations and TestNewBufferPoolResets do.     *)
(* A buffer is its index in bufs.                                          *)
(***************************************************************************)
Users == DOMAIN users

NoUser == [pc |-> "idle", buf |-> 0, lenAtGet |-> 0, pooled |-> FALSE]

InitPool ==
    /\ bufs = <<>>
    /\ free = {}
    /\ users = [g \in 1..NumUsers |-> NoUser]
    /\ ScanIdle
    /\ CallerIdle
    /\ LinkIdle
    /\ PureIdle

\* bp.pool.New: new(bytes.Buffer)
NewBuffer == [len |-> 0, written |-> FALSE]

\* Get: bp.pool.Get() hands out a buffer lying in the pool, or the result of
\* New (sync.Pool may treat the pool as empty)
bufferPoolGet(g) ==
    /\ users[g].pc = "idle"
    /\ \/ \E b \in free :
             /\ free' = free \ {b}
             /\ bufs' = bufs
             /\ users' = [users EXCEPT ![g] =
                    [pc |-> "holding", buf |-> b, lenAtGet |-> bufs[b].len,
                     pooled |-> TRUE]]
       \/ /\ Len(bufs) < NumBuffers
          /\ bufs' = Append(bufs, NewBuffer)
          /\ free' = free
          /\ users' = [users EXCEPT ![g] =
                 [pc |-> "holding", buf |-> Len(bufs) + 1,
                  lenAtGet |-> NewBuffer.len, pooled |-> FALSE]]
    /\ UNCHANGED <<scanVars, caller, reads, linkVars, pureVars>>

\* buf.WriteByte / io.Copy(buf, res.Body) by the goroutine that holds buf
bufferWrite(g) ==
    /\ users[g].pc = "holding"
    /\ bufs[users[g].buf].len < MaxBytes
    /\ bufs' = [bufs EXCEPT ![users[g].buf] =
                  [len |-> @.len + 1, written |-> TRUE]]
    /\ UNCHANGED <<free, users, scanVars, caller, reads, linkVars, pureVars>>

\* faulty variant of bufferPoolPutReset: the buffer is not reset
bufferPoolPutNoReset(g) ==
    /\ users[g].pc = "holding"
    /\ users' = [users EXCEPT ![g].pc = "reset"]
    /\ UNCHANGED <<bufs, free, scanVars, caller, reads, linkVars, pureVars>>

\* Put: b.Reset()
bufferPoolPutReset(g) ==
    /\ users[g].pc = "holding"
    /\ bufs' = [bufs EXCEPT ![users[g].buf].len = 0]
    /\ users' = [users EXCEPT ![g].pc = "reset"]
    /\ UNCHANGED <<free, scanVars, caller, reads, linkVars, pureVars>>

\* Put: bp.pool.Put(b)
bufferPoolPutBack(g) ==
    /\ users[g].pc = "reset"
    /\ free' = free \cup {users[g].buf}
    /\ users' = [users EXCEPT ![g] = NoUser]
    /\ UNCHANGED <<bufs, scanVars, caller, reads, linkVars, pureVars>>

NextPool ==
    \E g \in 1..NumUsers :
        \/ bufferPoolGet(g)
        \/ bufferWrite(g)
        \/ bufferPoolPutReset(g)
        \/ bufferPoolPutBack(g)

SpecPool == InitPool /\ [][NextPool]_vars

\* C14: every buffer lying in the pool has length 0, and every buffer Get
\* handed out had length 0 when it was handed out.
PooledBuffersEmpty ==
    /\ \A b \in free : bufs[b].len = 0
    /\ \A g \in Users : users[g].pc # "idle" => users[g].lenAtGet = 0

\* C14 witness: a goroutine holds a buffer that was written to before, went
\* through the pool and came back with length 0, while another goroutine is
\* writing to its own buffer
WrittenBufferReused ==
    \E g, h \in Users :
        /\ g # h
        /\ users[g].pc = "holding"
        /\ users[g].pooled
        /\ bufs[users[g].buf].written
        /\ bufs[users[g].buf].len = 0
        /\ users[h].pc = "holding"
        /\ bufs[users[h].buf].len > 0

(***************************************************************************)
(* Results and sort.Sort.  Strings compare byte by byte.  For a slice of   *)
(* up to 12 elements sort.Sort is an insertion sort through Less and Swap, *)
(* which the releases before Go 1.19 precede, from 7 elements on, by one   *)
(* pass that compares the elements six places apart.  Indexes are 1-based. *)
(***************************************************************************)
\* the characters of the URLs, in the order of their byte values
CharOrder ==
    <<"%", ".", "/", "0", "1", "2", "3", "4", "5", "6", "7", "8", "9", ":",
      "a", "b", "c", "d", "e", "f", "g", "h", "i", "j", "k", "l", "m", "n",
      "o", "p", "q", "r", "s", "t", "u", "v", "w", "x", "y", "z">>

Code(ch) == CHOOSE i \in 1..Len(CharOrder) : CharOrder[i] = ch

\* a < b on strings
RECURSIVE StrLess(_, _)
StrLess(a, b) ==
    IF b = <<>> THEN FALSE
    ELSE IF a = <<>> THEN TRUE
    ELSE IF Head(a) = Head(b) THEN StrLess(Tail(a), Tail(b))
    ELSE Code(Head(a)) < Code(Head(b))

ResultsLen(slice) == Len(slice)

\* faulty variant of Less: slice[i].URL <= slice[j].URL
LessOrEqual(slice, i, j) == ~StrLess(slice[j].URL, slice[i].URL)

Less(slice, i, j) == StrLess(slice[i].URL, slice[j].URL)

\* faulty variant of Swap: one element is copied over the other
SwapCopy(slice, i, j) == [slice EXCEPT ![i] = slice[j]]

Swap(slice, i, j) == [slice EXCEPT ![i] = slice[j], ![j] = slice[i]]

\* for j := i; j > a && data.Less(j, j-1); j-- { data.Swap(j, j-1) }
RECURSIVE sink(_, _)
sink(data, j) ==
    IF j > 1 /\ Less(data, j, j - 1) THEN sink(Swap(data, j, j - 1), j - 1)
    ELSE data

\* for i := a + 1; i < b; i++ { ... }
RECURSIVE insertionSort(_, _)
insertionSort(data, i) ==
    IF i > ResultsLen(data) THEN data
    ELSE insertionSort(sink(data, i), i + 1)

\* sort.Sort(data) from Go 1.19 on: pdqsort, up to 12 elements
Sort(data) == insertionSort(data, 2)

\* for i := a + 6; i < b; i++ { if data.Less(i, i-6) { data.Swap(i, i-6) } }
RECURSIVE shellPass(_, _)
shellPass(data, i) ==
    IF i > ResultsLen(data) THEN data
    ELSE IF Less(data, i, i - 6) THEN shellPass(Swap(data, i, i - 6), i + 1)
    ELSE shellPass(data, i + 1)

\* sort.Sort(data) before Go 1.19: quickSort, up to 12 elements
SortShell(data) == insertionSort(shellPass(data, 7), 2)

\* what sort.Sort(data) leaves, by the release the program is built with
SortBuilds(data) == {Sort(data), SortShell(data)}

(***************************************************************************)
(* The reader of the results: main, which calls GetResults and sorts what  *)
(* it got once the scan calls are over, and callers of ResultsToReader.    *)
(* Neither method locks sc.mxt.                                            *)
(***************************************************************************)
\* a read of sc.results; it overlaps an append when a scan call is inside
\* the critical section of saveResult
Read(op) == [op |-> op, overlap |-> mxt # 0]

\* GetResults returns sc.results: the slice header, which shares the backing
\* array.  A header read while saveResult is storing one is a data race: the
\* reader gets the old header, the new one, or a torn one it cannot use.
GetResults ==
    /\ ~crashed
    /\ caller.pc = "start"
    /\ Len(reads) < MaxReads
    /\ reads' = Append(reads, Read("GetResults"))
    /\ \/ caller' = [caller EXCEPT !.pc = "got", !.res = results,
                                   !.shared = TRUE]
       \/ /\ mxt # 0
          /\ calls[mxt].pc = "append"
          /\ caller' = [caller EXCEPT
                          !.pc = "got",
                          !.res = Append(results, calls[mxt].pending),
                          !.shared = (Len(results) # Cap(Len(results)))]
       \/ /\ mxt # 0
          /\ calls[mxt].pc = "append"
          /\ caller' = [caller EXCEPT !.pc = "torn"]
    /\ UNCHANGED <<scanVars, linkVars, pureVars, poolVars>>

\* ResultsToReader: json.Marshal(sc.results)
ResultsToReader ==
    /\ ~crashed
    /\ Len(reads) < MaxReads
    /\ reads' = Append(reads, Read("ResultsToReader"))
    /\ UNCHANGED <<scanVars, caller, linkVars, pureVars, poolVars>>

\* sort.Sort(res) in main, after the scan calls are over; the elements are
\* swapped in the backing array, which sc.results still uses when it has
\* not been moved since GetResults
SortResults ==
    /\ ~crashed
    /\ caller.pc = "got"
    /\ \A c \in Calls : calls[c].pc = "done"
    /\ \E sorted \in SortBuilds(caller.res) :
          /\ caller' = [caller EXCEPT !.pc = "sorted", !.res = sorted,
                                      !.before = caller.res]
          /\ results' = IF caller.shared
                        THEN sorted \o SubSeq(results, Len(caller.res) + 1,
                                              Len(results))
                        ELSE results
    /\ UNCHANGED <<limit, depthLimit, sema, mxt, crashed, calls, reads,
                   linkVars, pureVars, poolVars>>

\* Search calls on URLs that resolve, on a Scanner that does not crawl
InitResults ==
    /\ limit = NumWriters
    /\ depthLimit = 0
    /\ sema = 0
    /\ results = <<>>
    /\ mxt = 0
    /\ crashed = FALSE
    /\ \E u \in [1..NumWriters -> {UrlPlain, UrlSecure}] :
          /\ \A c \in 1..(NumWriters - 1) :
                Rank(SearchOp, u[c]) <= Rank(SearchOp, u[c + 1])
          /\ calls = [c \in 1..NumWriters |->
                        [NoCall EXCEPT !.op = SearchOp, !.arg = u[c],
                                       !.URL = u[c]]]
    /\ CallerIdle
    /\ LinkIdle
    /\ PoolIdle
    /\ PureIdle

NextResults ==
    \/ Next
    \/ GetResults
    \/ ResultsToReader
    \/ SortResults

SpecResults == InitResults /\ [][NextResults]_vars

\* C11: no read of sc.results was made while a scan call was inside the
\* critical section of saveResult.
NoReadOverlapsAppend ==
    \A r \in DOMAIN reads : ~reads[r].overlap

IsPrefix(p, q) == Len(p) <= Len(q) /\ SubSeq(q, 1, Len(p)) = p

\* C12: every step leaves the previous sc.results a prefix of the next.
ResultsAppendOnly == [][IsPrefix(results, results')]_vars

(***************************************************************************)
(* sort.Sort on its own: every Results value of up to MaxResults elements. *)
(***************************************************************************)
SortURLs == BaseURLs \cup {b \o PathX : b \in BaseURLs}

SortInputs ==
    {Result(u, KeywordOf(SearchOp), f, StringContext("")) :
        u \in SortURLs, f \in BOOLEAN}

InitSort ==
    /\ \E rs \in SeqsUpTo(SortInputs, MaxResults) :
          caller = [NoCaller EXCEPT !.pc = "got", !.res = rs]
    /\ reads = <<>>
    /\ ScanIdle
    /\ LinkIdle
    /\ PoolIdle
    /\ PureIdle

NextSort == SortResults

SpecSort == InitSort /\ [][NextSort]_vars

\* the number of elements of q equal to e
RECURSIVE Occurrences(_, _)
Occurrences(e, q) ==
    IF q = <<>> THEN 0
    ELSE (IF Head(q) = e THEN 1 ELSE 0) + Occurrences(e, Tail(q))

IsPermutation(p, q) ==
    /\ Len(p) = Len(q)
    /\ \A i \in DOMAIN p : Occurrences(p[i], p) = Occurrences(p[i], q)

\* C20: what sort.Sort leaves is a permutation of what it was given, with
\* URLs that never decrease from one element to the next.
SortedPermutation ==
    caller.pc = "sorted" =>
        /\ IsPermutation(caller.res, caller.before)
        /\ \A i \in 1..(Len(caller.res) - 1) :
              ~StrLess(caller.res[i + 1].URL, caller.res[i].URL)

\* C20 witness: a value of MaxResults elements that was out of order, with
\* two elements of the same URL, has been sorted
SortedOutOfOrderInput ==
    /\ caller.pc = "sorted"
    /\ Len(caller.res) = MaxResults
    /\ caller.res # caller.before
    /\ \E i \in 1..(Len(caller.res) - 1) :
          /\ caller.res[i].URL = caller.res[i + 1].URL
          /\ caller.res[i] # caller.res[i + 1]
    /\ \E i \in 1..(Len(caller.res) - 1) :
          StrLess(caller.res[i].URL, caller.res[i + 1].URL)

\* a comes strictly before b in string order: at the first place where they
\* differ a has ended, or holds the smaller byte
StrictlyBefore(a, b) ==
    \E k \in 1..Len(b) :
        /\ \A i \in 1..(k - 1) : i <= Len(a) /\ a[i] = b[i]
        /\ \/ k = Len(a) + 1
           \/ k <= Len(a) /\ Code(a[k]) < Code(b[k])

\* C22: Less(i, j) holds exactly when the URL of element i comes strictly
\* before the URL of element j in string order, so it is false for equal
\* URLs and never holds both ways; Len is the number of elements.
LessIsStrictURLOrder ==
    /\ ResultsLen(caller.res) = Cardinality(DOMAIN caller.res)
    /\ \A i, j \in DOMAIN caller.res :
          /\ Less(caller.res, i, j)
                <=> StrictlyBefore(caller.res[i].URL, caller.res[j].URL)
          /\ caller.res[i].URL = caller.res[j].URL => ~Less(caller.res, i, j)
          /\ ~(Less(caller.res, i, j) /\ Less(caller.res, j, i))

\* C22 witness: a sorted value holds two different results of one URL, and
\* a URL that is the beginning of the URL of a later element
ComparedEqualAndPrefixURLs ==
    /\ caller.pc = "sorted"
    /\ \E i, j \in DOMAIN caller.res :
          /\ i # j
          /\ caller.res[i] # caller.res[j]
          /\ caller.res[i].URL = caller.res[j].URL
    /\ \E i, j \in DOMAIN caller.res :
          /\ Less(caller.res, i, j)
          /\ Len(caller.res[i].URL) < Len(caller.res[j].URL)
          /\ IsPrefix(caller.res[i].URL, caller.res[j].URL)

(***************************************************************************)
(* sort.Sort on results of equal URLs: up to MaxStable results appended in *)
(* turn, each told from the others by its Context.                         *)
(***************************************************************************)
StableURLs == BaseURLs \cup {normalizeURL(UrlPlain).s \o PathX}

\* the Context of the i-th appended result
Tags == <<"<1>", "<2>", "<3>", "<4>", "<5>", "<6>", "<7>", "<8>", "<9>">>

Appends(u) ==
    [i \in 1..Len(u) |->
        Result(u[i], KeywordOf(SearchOp), TRUE, StringContext(Tags[i]))]

InitStable ==
    /\ \E u \in SeqsUpTo(StableURLs, MaxStable) :
          caller = [NoCaller EXCEPT !.pc = "got", !.res = Appends(u)]
    /\ reads = <<>>
    /\ ScanIdle
    /\ LinkIdle
    /\ PoolIdle
    /\ PureIdle

SpecStable == InitStable /\ [][NextSort]_vars

\* the place of the result e in the slice q
Place(e, q) == CHOOSE i \in DOMAIN q : q[i] = e

\* C21: after sort.Sort any two results of the same URL stand in the order
\* in which they were appended.
SortKeepsAppendOrder ==
    caller.pc = "sorted" =>
        \A i, j \in DOMAIN caller.before :
            (i < j /\ caller.before[i].URL = caller.before[j].URL) =>
                Place(caller.before[i], caller.res)
                    < Place(caller.before[j], caller.res)

(***************************************************************************)
(* What a scan operation saves for one fetched page: the regexp matching   *)
(* of Search and SearchWithRegx on bodies of up to MaxBody characters, and *)
(* the filtering of SearchForEmail on what FindStringSubmatch returned.    *)
(* A pattern is a literal with or without the (?i) directive in front.     *)
(***************************************************************************)
BodyChars == {"<", ">", "k", "K", "\n"}

Directive == <<"(", "?", "i", ")">>

\* the letter a character is folded to under (?i)
Lower(ch) == IF ch = "K" THEN "k" ELSE ch

\* regexp.MustCompile(pattern): [fold, lit]
Compile(pattern) ==
    IF HasPrefix(pattern, Directive)
    THEN [fold |-> TRUE, lit |-> SubSeq(pattern, 5, Len(pattern))]
    ELSE [fold |-> FALSE, lit |-> pattern]

\* the literal of re matches b from place p on
MatchAt(re, b, p) ==
    /\ p + Len(re.lit) - 1 <= Len(b)
    /\ \A i \in 1..Len(re.lit) :
          IF re.fold THEN Lower(b[p + i - 1]) = Lower(re.lit[i])
          ELSE b[p + i - 1] = re.lit[i]

\* (*Regexp).Match
RegexpMatch(re, b) == \E p \in 1..Len(b) : MatchAt(re, b, p)

\* ([^>]+>) from place q of b on: the place of its ">", 0 without a match
groupEnd(b, q) ==
    IF q > Len(b) \/ b[q] = ">" THEN 0
    ELSE IF \A e \in (q + 1)..Len(b) : b[e] # ">" THEN 0
    ELSE CHOOSE e \in (q + 1)..Len(b) :
            b[e] = ">" /\ \A d \in (q + 1)..(e - 1) : b[d] # ">"

\* (?i)(<[^<]+)(lit)([^>]+>) matches b from place s on with lit at place p
contextAt(b, lit, s, p) ==
    /\ b[s] = "<"
    /\ p >= s + 2
    /\ \A i \in (s + 1)..(p - 1) : b[i] # "<"
    /\ MatchAt([fold |-> TRUE, lit |-> lit], b, p)
    /\ groupEnd(b, p + Len(lit)) # 0

keywordPlaces(b, lit, s) == {p \in 1..Len(b) : contextAt(b, lit, s, p)}

contextStarts(b, lit) == {s \in 1..Len(b) : keywordPlaces(b, lit, s) # {}}

Min(S) == CHOOSE x \in S : \A y \in S : x <= y
Max(S) == CHOOSE x \in S : \A y \in S : x >= y

\* the match from place s on: the first group takes all it can
contextFrom(b, lit, s) ==
    SubSeq(b, s, groupEnd(b, Max(keywordPlaces(b, lit, s)) + Len(lit)))

\* contextRegex.Find(b): the leftmost match, "" without one
contextFind(b, lit) ==
    IF contextStarts(b, lit) = {} THEN <<>>
    ELSE contextFrom(b, lit, Min(contextStarts(b, lit)))

\* newLineReplacer.Replace
newLineReplace(str) ==
    Replace(Replace(Replace(str, <<"\r", "\n">>, <<>>, -1),
                    <<"\n">>, <<>>, -1),
            <<"\r">>, <<>>, -1)

\* Search: searchRegex
searchRegex(keyword) ==
    IF Contains(keyword, Directive) THEN Compile(keyword)
    ELSE Compile(Directive \o keyword)

\* Search: the keyword put into contextRegex
searchContextLit(keyword) ==
    IF Contains(keyword, Directive) THEN Replace(keyword, Directive, <<>>, 1)
    ELSE keyword

\* faulty variant of contextOf: the context is extracted whether or not the
\* pattern matched
contextUnguarded(found, b, lit) == newLineReplace(contextFind(b, lit))

\* var context string; if found { context = newLineReplacer.Replace(...) }
contextOf(found, b, lit) ==
    IF found THEN newLineReplace(contextFind(b, lit)) ELSE <<>>

\* for _, f := range filters { if !strings.Contains(e, f) && ... }
RECURSIVE eachFilter(_, _, _, _)
eachFilter(e, filters, k, clean) ==
    IF k > Len(filters) THEN clean
    ELSE IF ~Contains(e, filters[k]) /\ ~inSlice(e, clean) /\ Len(e) > 1
    THEN eachFilter(e, filters, k + 1, Append(clean, e))
    ELSE eachFilter(e, filters, k + 1, clean)

\* the body of 'for _, e := range emails'
keepEmail(e, filters, clean) ==
    IF Len(filters) > 0 THEN eachFilter(e, filters, 1, clean)
    ELSE IF Len(e) > 1 /\ ~inSlice(e, clean) THEN Append(clean, e)
    ELSE clean

\* for _, e := range emails { ... }
RECURSIVE eachEmail(_, _, _, _)
eachEmail(emails, i, filters, clean) ==
    IF i > Len(emails) THEN clean
    ELSE eachEmail(emails, i + 1, filters, keepEmail(emails[i], filters, clean))

\* the patterns handed to Search and SearchWithRegx
Keywords == {<<"k">>, Directive \o <<"k">>}

\* what EmailRegex.FindStringSubmatch returns: nothing, or the match, the
\* first group (all of the match), the "@" or " at " and the last "." or
\* " dot " of it
Submatch(m, at, dot) == <<m, m, at, dot>>

Submatches ==
    {<<>>,
     Submatch(<<"a", "@", "b", ".", "c">>, <<"@">>, <<".">>),
     Submatch(<<"k", "@", "b", ".", "c">>, <<"@">>, <<".">>),
     Submatch(<<"a", " ", "a", "t", " ", "b", " ", "d", "o", "t", " ", "c">>,
              <<" ", "a", "t", " ">>, <<" ", "d", "o", "t", " ">>)}

FilterStrings == {<<"a">>, <<"k">>, <<"b", ".">>}

Matching(op, keyword, fetched, body, emails, filters) ==
    [pc |-> "fetched", op |-> op, keyword |-> keyword, fetched |-> fetched,
     body |-> body, emails |-> emails, filters |-> filters,
     found |-> FALSE, context |-> StringContext(<<>>)]

InitMatch ==
    /\ \/ \E o \in {SearchOp, RegxOp}, k \in Keywords,
             b \in SeqsUpTo(BodyChars, MaxBody) :
             match = Matching(o, k, TRUE, b, <<>>, <<>>)
       \/ \E o \in {SearchOp, RegxOp}, k \in Keywords :
             match = Matching(o, k, FALSE, <<>>, <<>>, <<>>)
       \/ \E e \in Submatches, f \in SeqsUpTo(FilterStrings, MaxFilters) :
             match = Matching(EmailOp, <<>>, TRUE, <<>>, e, f)
    /\ norm = NoNorm
    /\ retried = NoRetried
    /\ WasFound = <<>>
    /\ ScanIdle
    /\ CallerIdle
    /\ LinkIdle
    /\ PoolIdle

\* what saveResult is handed besides the URL and the keyword
Saved(found, context) ==
    [match EXCEPT !.pc = "saved", !.found = found, !.context = context]

\* Search on a fetched body: part_001 293-299
SearchBody ==
    /\ match.pc = "fetched"
    /\ match.op = SearchOp
    /\ match.fetched
    /\ match' = Saved(RegexpMatch(searchRegex(match.keyword), match.body),
                      StringContext(contextOf(
                          RegexpMatch(searchRegex(match.keyword), match.body),
                          match.body, searchContextLit(match.keyword))))
    /\ UNCHANGED <<scanVars, caller, reads, linkVars, poolVars, norm, retried,
                   WasFound>>

\* SearchWithRegx on a fetched body: part_001 418-425
SearchWithRegxBody ==
    /\ match.pc = "fetched"
    /\ match.op = RegxOp
    /\ match.fetched
    /\ match' = Saved(RegexpMatch(Compile(match.keyword), match.body),
                      StringContext(contextOf(
                          RegexpMatch(Compile(match.keyword), match.body),
                          match.body, Compile(match.keyword).lit)))
    /\ UNCHANGED <<scanVars, caller, reads, linkVars, poolVars, norm, retried,
                   WasFound>>

\* both GET attempts failed: sc.saveResult(url, keyword, false, "")
SaveNotFound ==
    /\ match.pc = "fetched"
    /\ ~match.fetched
    /\ match' = Saved(FALSE, StringContext(<<>>))
    /\ UNCHANGED <<scanVars, caller, reads, linkVars, poolVars, norm, retried,
                   WasFound>>

\* SearchForEmail on a fetched body: part_001 352-373
SearchForEmailBody ==
    /\ match.pc = "fetched"
    /\ match.op = EmailOp
    /\ match' = Saved(Len(match.emails) > 0,
                      ListContext(eachEmail(match.emails, 1, match.filters,
                                            <<>>)))
    /\ UNCHANGED <<scanVars, caller, reads, linkVars, poolVars, norm, retried,
                   WasFound>>

NextMatch ==
    \/ SearchBody
    \/ SearchWithRegxBody
    \/ SaveNotFound
    \/ SearchForEmailBody

SpecMatch == InitMatch /\ [][NextMatch]_vars

\* C23: whatever is saved with Found = true has a Context that is not
\* empty: the string of Search and SearchWithRegx, the list of
\* SearchForEmail.
FoundHasContext ==
    (match.pc = "saved" /\ match.found) => match.context.v # <<>>

\* C24: whatever Search or SearchWithRegx saves with Found = false, for a
\* body the pattern does not match or after a failed fetch, has the empty
\* string as its Context.
NotFoundHasNoContext ==
    (match.pc = "saved" /\ match.op \in {SearchOp, RegxOp} /\ ~match.found)
        => match.context = StringContext(<<>>)

\* C24 witness: a not-found result was saved for a fetched body that holds
\* the keyword in another case inside a tag
NotFoundSavedForTaggedBody ==
    /\ match.pc = "saved"
    /\ match.op = RegxOp
    /\ match.fetched
    /\ ~match.found
    /\ contextFind(match.body, Compile(match.keyword).lit) # <<>>

\* the keyword occurs in the body when letter case is ignored
OccursIgnoringCase(keyword, body) ==
    \E p \in 1..Len(body) :
        /\ p + Len(keyword) - 1 <= Len(body)
        /\ \A i \in 1..Len(keyword) :
              Lower(body[p + i - 1]) = Lower(keyword[i])

\* C25: a keyword or pattern without a case directive is found in every
\* fetched body that holds it in any letter case.
MatchIgnoresCase ==
    (/\ match.pc = "saved"
     /\ match.op \in {SearchOp, RegxOp}
     /\ match.fetched
     /\ ~Contains(match.keyword, Directive)
     /\ OccursIgnoringCase(match.keyword, match.body))
        => match.found

\* C26: with filters, no string saved by SearchForEmail holds a filter and
\* no string is saved twice.
FiltersExcludeAndNoDuplicates ==
    (match.pc = "saved" /\ match.op = EmailOp /\ Len(match.filters) > 0) =>
        /\ \A i \in DOMAIN match.context.v, k \in DOMAIN match.filters :
              ~Contains(match.context.v[i], match.filters[k])
        /\ \A i, j \in DOMAIN match.context.v :
              match.context.v[i] = match.context.v[j] => i = j

(***************************************************************************)
(* normalizeURL on its own: URLs put together from a scheme or none, a     *)
(* host and up to MaxSegments path segments, and normalizeURL applied      *)
(* again to what it returned.                                              *)
(***************************************************************************)
SchemePrefixes == {<<>>, StrHttp \o StrSchemeSep, StrHttps \o StrSchemeSep}

NormHosts == {UrlPlain, UrlNoDomain}

Segments == {<<>>, <<"x">>, <<"%", "2", "5">>, <<"x", ":", "z">>, StrHttp}

RECURSIVE PathsOf(_)
PathsOf(k) ==
    IF k = 0 THEN {<<>>}
    ELSE {q \o StrSlash \o g : q \in PathsOf(k - 1), g \in Segments}

Normalizing(scheme, host, path) ==
    [pc |-> "start", scheme |-> scheme, host |-> host, path |-> path,
     URL |-> scheme \o host \o path,
     out |-> [s |-> <<>>, err |-> Nil], again |-> [s |-> <<>>, err |-> Nil]]

InitNormalize ==
    /\ \/ \E c \in SchemePrefixes, h \in NormHosts,
             q \in UNION {PathsOf(k) : k \in 0..MaxSegments} :
             norm = Normalizing(c, h, q)
       \/ \E u \in {UrlEmpty, UrlBadEscape} : norm = Normalizing(<<>>, u, <<>>)
    /\ match = NoMatch
    /\ retried = NoRetried
    /\ WasFound = <<>>
    /\ ScanIdle
    /\ CallerIdle
    /\ LinkIdle
    /\ PoolIdle

\* URL, err = normalizeURL(URL)
CallNormalizeURL ==
    /\ norm.pc = "start"
    /\ norm' = [norm EXCEPT !.pc = "once", !.out = normalizeURL(norm.URL)]
    /\ UNCHANGED <<scanVars, caller, reads, linkVars, poolVars, match, retried,
                   WasFound>>

\* normalizeURL on the URL a first call returned without an error
CallNormalizeURLAgain ==
    /\ norm.pc = "once"
    /\ norm.out.err = Nil
    /\ norm' = [norm EXCEPT !.pc = "twice", !.again = normalizeURL(norm.out.s)]
    /\ UNCHANGED <<scanVars, caller, reads, linkVars, poolVars, match, retried,
                   WasFound>>

NextNormalize ==
    \/ CallNormalizeURL
    \/ CallNormalizeURLAgain

SpecNormalize == InitNormalize /\ [][NextNormalize]_vars

\* the scheme normalizeURL is to give the input: its own, or http
SchemeWanted == IF norm.scheme = <<>> THEN StrHttp \o StrSchemeSep ELSE norm.scheme

\* what the host is taken from: the host of an input with a scheme, all of
\* an input without one
HostOrPathGiven == IF norm.scheme = <<>> THEN norm.host \o norm.path ELSE norm.host

\* C27: an error comes with the empty string; ErrURLEmpty exactly for the
\* empty input; ErrDomainMissing for a parseable input whose host, or path
\* when it has no host, holds no dot.
NormalizeErrors ==
    norm.pc # "start" =>
        /\ norm.out.err # Nil => norm.out.s = <<>>
        /\ norm.out.err = ErrURLEmpty <=> norm.URL = <<>>
        /\ (/\ norm.URL # <<>>
            /\ Parse(norm.URL).ok
            /\ Count(HostOrPathGiven, StrDot) = 0)
              => norm.out.err = ErrDomainMissing

\* C27 witness: ErrDomainMissing was returned for a one-label host that
\* came with a scheme and a path
DomainMissingWithSchemeAndPath ==
    /\ norm.pc = "once"
    /\ norm.scheme # <<>>
    /\ norm.path # <<>>
    /\ norm.out = [s |-> <<>>, err |-> ErrDomainMissing]

\* C28: normalizeURL applied to what it returned for an input with a host
\* of two labels returns the same string and no error.
NormalizeIdempotent ==
    (norm.pc = "twice" /\ Contains(norm.host, StrDot)) =>
        norm.again = norm.out

\* C29: a host of two labels followed by nothing or by one "/" becomes the
\* scheme, "://" and the host, with http for an input without a scheme.
BareDomainNormalized ==
    (/\ norm.pc # "start"
     /\ Contains(norm.host, StrDot)
     /\ norm.path \in {<<>>, StrSlash})
        => norm.out = [s |-> SchemeWanted \o norm.host, err |-> Nil]

\* C29 witness: an https input that ends in "/" was normalized
SecureTrailingSlashNormalized ==
    /\ norm.pc = "once"
    /\ norm.scheme = StrHttps \o StrSchemeSep
    /\ Contains(norm.host, StrDot)
    /\ norm.path = StrSlash
    /\ norm.out.err = Nil

\* C30: what normalizeURL returns without an error is the scheme, "://" and
\* the host of the input, followed by the path of the input when that holds
\* more than one "/".
NormalizedIsSchemeHostPath ==
    (norm.pc # "start" /\ norm.out.err = Nil) =>
        norm.out.s =
            SchemeWanted \o norm.host
                \o (IF Count(norm.path, StrSlash) > 1 THEN norm.path ELSE <<>>)

\* the place of the first anchor of the page whose href is h
FirstAnchor(h) ==
    CHOOSE i \in DOMAIN link.doc.anchors :
        /\ link.doc.anchors[i] = h
        /\ \A j \in 1..(i - 1) : link.doc.anchors[j] # h

\* C34: for a limit above 0 and a page that was parsed, every element after
\* the first is the href of an anchor of the page and contains baseURL, no
\* string is in the list twice, and the elements stand in the order in which
\* they first occur among the anchors.
LinksDistinctInPageOrder ==
    (link.pc = "done" /\ link.lim > 0 /\ ~link.doc.err) =>
        /\ \A i \in 2..Len(link.moreURLS) :
              /\ \E a \in DOMAIN link.doc.anchors :
                    link.doc.anchors[a] = link.moreURLS[i]
              /\ Contains(link.moreURLS[i], link.baseURL)
        /\ \A i, j \in DOMAIN link.moreURLS :
              link.moreURLS[i] = link.moreURLS[j] => i = j
        /\ \A i, j \in 2..Len(link.moreURLS) :
              i < j => FirstAnchor(link.moreURLS[i])
                         < FirstAnchor(link.moreURLS[j])

\* C34 witness: a page that names one same-site link twice and then another
\* has been scanned, and the list holds baseURL and the two links
RepeatedAnchorListedOnce ==
    /\ link.pc = "done"
    /\ link.lim > 0
    /\ ~link.doc.err
    /\ \E i, j \in DOMAIN link.doc.anchors :
          /\ i < j
          /\ link.doc.anchors[i] = link.doc.anchors[j]
          /\ Contains(link.doc.anchors[i], link.baseURL)
    /\ Len(link.moreURLS) = 3

\* C35: sc.mxt is held exactly by the call that is inside saveResult between
\* Lock and Unlock: never by a call that waits at the gate, fetches, or has
\* left saveResult, never by a call that is about to Lock, and its holder
\* can always go on to Unlock.
MutexOnlyAroundAppend ==
    /\ mxt # 0 => (mxt \in Calls /\ calls[mxt].pc = "append")
    /\ \A c \in Calls : calls[c].pc = "append" => mxt = c
    /\ \A c \in Calls :
          calls[c].pc \in {"idle", "load", "normalize", "discover", "get",
                           "retry", "match", "save", "release", "done",
                           "crashed"}
              => mxt # c
    /\ (mxt # 0 /\ ~crashed) => ENABLED saveResultStore(mxt)

\* C35 witness: one call is between Lock and Unlock while another waits at
\* Lock and the gate is full
AppendWhileOtherWaitsAtLock ==
    /\ mxt # 0
    /\ sema = limit
    /\ \E c \in Calls : c # mxt /\ calls[c].pc = "save"

\* C37: on a Scanner built with limit 0 no call gets past sc.sema.load():
\* none normalizes, fetches, saves a result or returns.
LimitZeroBlocksEveryCall ==
    limit = 0 =>
        /\ sema = 0
        /\ results = <<>>
        /\ \A c \in Calls :
              /\ calls[c].pc \in {"idle", "load"}
              /\ calls[c].acquired = 0
              /\ calls[c].gets = 0
              /\ calls[c].ret = "none"
              /\ calls[c].URL = calls[c].arg

\* C37 witness: every call of a Scanner with limit 0 stands at sc.sema.load()
AllCallsBlockedAtGate ==
    /\ limit = 0
    /\ Calls # {}
    /\ \A c \in Calls : calls[c].pc = "load"
    /\ \E c, d \in Calls : calls[c].op # calls[d].op

(***************************************************************************)
(* The scan under fair scheduling.  A goroutine that can take a step is    *)
(* scheduled in the end, every GET answers or fails within the client's    *)
(* timeout, and a sender blocked on the gate channel or a goroutine        *)
(* blocked in Lock is woken when the slot or the mutex is free: weak       *)
(* fairness for the steps of each call.  Every call is issued at most once *)
(* and has finitely many steps, so no step is enabled and disabled again   *)
(* without end.  The callers need not issue a call.                        *)
(***************************************************************************)
SpecLive ==
    /\ Init
    /\ [][Next]_vars
    /\ \A c \in 1..NumCalls :
          WF_vars(c \in Calls /\ (Load(c) \/ Normalize(c) \/ Discover(c)
                                     \/ Get(c) \/ Retry(c) \/ Match(c)
                                     \/ saveResultLock(c)
                                     \/ saveResultStore(c) \/ Release(c)))

\* C36: on a Scanner with limit >= 1 every call that was issued gets through
\* the gate and returns, and the gate is empty in the end: from some state
\* on every call either was never issued or has acquired, released and
\* returned, and no slot of the gate is taken.
EveryCallReturnsAndGateEmpties ==
    limit >= 1 =>
        <>[](/\ sema = 0
             /\ \A c \in Calls :
                   \/ calls[c].pc = "idle"
                   \/ calls[c].pc = "done" /\ calls[c].acquired = 1)

(***************************************************************************)
(* The buffers of the scan calls.  A call fetches its links one after the  *)
(* other; for each response it takes a buffer from the pool, defers the    *)
(* Put, copies the body into the buffer, matches and saves a copy of the   *)
(* context.  The deferred Puts run, last first, when the call returns, be  *)
(* it after the last link, on the error return after a failed GET, or      *)
(* while a panic unwinds.  A body is modelled by its length, the same for  *)
(* every link; body and context are the body last copied and the context   *)
(* last saved.                                                             *)
(***************************************************************************)
\* the length of every body fetched
BodyLen == Len(<<"b">>)

NoOwner == [pc |-> "get", links |-> MaxFetches, buf |-> 0, deferred |-> <<>>,
            body |-> 0, context |-> 0, failed |-> FALSE]

InitOwn ==
    /\ bufs = <<>>
    /\ free = {}
    /\ users = [g \in 1..NumUsers |-> NoOwner]
    /\ ScanIdle
    /\ CallerIdle
    /\ LinkIdle
    /\ PureIdle

\* faulty variant of OwnGet: Get hands out a pooled buffer and leaves it in
\* the pool
OwnGetLeftInPool(g) ==
    /\ users[g].pc = "get"
    /\ \/ /\ users' = [users EXCEPT ![g].pc = "exit", ![g].failed = TRUE]
          /\ UNCHANGED <<bufs, free>>
       \/ \E b \in free :
             /\ free' = free
             /\ bufs' = [bufs EXCEPT ![b].len = @ + BodyLen]
             /\ users' = [users EXCEPT ![g].pc = "match", ![g].buf = b,
                                       ![g].body = BodyLen,
                                       ![g].deferred = Append(@, b)]
       \/ /\ bufs' = Append(bufs, [NewBuffer EXCEPT !.len = @ + BodyLen])
          /\ free' = free
          /\ users' = [users EXCEPT ![g].pc = "match", ![g].buf = Len(bufs) + 1,
                                    ![g].body = BodyLen,
                                    ![g].deferred = Append(@, Len(bufs) + 1)]
    /\ UNCHANGED <<scanVars, caller, reads, linkVars, pureVars>>

\* sc.client.Get(url) fails and the call returns with the error; or it
\* answers, and buf := sc.buffer.Get(); defer sc.buffer.Put(buf): sync.Pool
\* hands a pooled buffer to one caller, or makes a new one; and
\* io.Copy(buf, res.Body) appends the body to the buffer
OwnGet(g) ==
    /\ users[g].pc = "get"
    /\ \/ /\ users' = [users EXCEPT ![g].pc = "exit", ![g].failed = TRUE]
          /\ UNCHANGED <<bufs, free>>
       \/ \E b \in free :
             /\ free' = free \ {b}
             /\ bufs' = [bufs EXCEPT ![b].len = @ + BodyLen]
             /\ users' = [users EXCEPT ![g].pc = "match", ![g].buf = b,
                                       ![g].body = BodyLen,
                                       ![g].deferred = Append(@, b)]
       \/ /\ bufs' = Append(bufs, [NewBuffer EXCEPT !.len = @ + BodyLen])
          /\ free' = free
          /\ users' = [users EXCEPT ![g].pc = "match", ![g].buf = Len(bufs) + 1,
                                    ![g].body = BodyLen,
                                    ![g].deferred = Append(@, Len(bufs) + 1)]
    /\ UNCHANGED <<scanVars, caller, reads, linkVars, pureVars>>

\* b := buf.Bytes(); the match; string(contextRegex.Find(b)) copies what it
\* found out of the buffer; saveResult; then the next link or the return
OwnMatch(g) ==
    /\ users[g].pc = "match"
    /\ users' = [users EXCEPT
                   ![g].context = bufs[users[g].buf].len,
                   ![g].links = @ - 1,
                   ![g].buf = 0,
                   ![g].pc = IF users[g].links > 1 THEN "get" ELSE "exit"]
    /\ UNCHANGED <<bufs, free, scanVars, caller, reads, linkVars, pureVars>>

\* a deferred sc.buffer.Put(buf) runs, the last deferred first: b.Reset()
\* and bp.pool.Put(b)
OwnPut(g) ==
    /\ users[g].pc = "exit"
    /\ users[g].deferred # <<>>
    /\ bufs' = [bufs EXCEPT ![users[g].deferred[Len(users[g].deferred)]].len = 0]
    /\ free' = free \cup {users[g].deferred[Len(users[g].deferred)]}
    /\ users' = [users EXCEPT
                   ![g].deferred = SubSeq(@, 1, Len(@) - 1)]
    /\ UNCHANGED <<scanVars, caller, reads, linkVars, pureVars>>

\* the call is over once its deferred functions have run
OwnReturn(g) ==
    /\ users[g].pc = "exit"
    /\ users[g].deferred = <<>>
    /\ users' = [users EXCEPT ![g].pc = "done"]
    /\ UNCHANGED <<bufs, free, scanVars, caller, reads, linkVars, pureVars>>

NextOwn ==
    \E g \in 1..NumUsers :
        \/ OwnGet(g)
        \/ OwnMatch(g)
        \/ OwnPut(g)
        \/ OwnReturn(g)

SpecOwn == InitOwn /\ [][NextOwn]_vars

\* the buffers whose deferred Put has not yet run
Owned(g) == {users[g].deferred[i] : i \in DOMAIN users[g].deferred}

\* C38: no buffer is held by two calls or held and pooled at once; a call
\* copies into and matches on a buffer it holds, whose content is the body
\* the call copied, and what it saved is that body whatever happens to the
\* buffer later; a call that is over, with or without an error, holds no
\* buffer, and every buffer no call holds lies in the pool.
BuffersExclusivelyOwned ==
    /\ \A g, h \in Users : g # h => Owned(g) \cap Owned(h) = {}
    /\ \A b \in DOMAIN bufs : b \in free \/ \E g \in Users : b \in Owned(g)
    /\ \A g \in Users :
          /\ Owned(g) \cap free = {}
          /\ Cardinality(Owned(g)) = Len(users[g].deferred)
          /\ users[g].pc = "match" => users[g].buf \in Owned(g)
          /\ users[g].pc # "match" => users[g].buf = 0
          /\ users[g].pc = "match" => bufs[users[g].buf].len = users[g].body
          /\ users[g].pc # "match" => users[g].context = users[g].body
          /\ users[g].pc = "done" => Owned(g) = {}

\* C38 witness: a call is over after an error with the buffer of an earlier
\* link put back, and another call that took a buffer from the pool is
\* matching on it and holds a second buffer too
ReturnedBufferReusedByOther ==
    \E g, h \in Users :
        /\ g # h
        /\ users[g].pc = "done"
        /\ users[g].failed
        /\ users[g].context > 0
        /\ users[h].pc = "match"
        /\ users[h].buf < Len(users[h].deferred)
        /\ Len(users[h].deferred) = 2

(***************************************************************************)
(* The URL of the second GET on its own: a link with the http or https     *)
(* scheme and up to MaxSegments path segments, whose first GET failed in   *)
(* one of the three operations.                                            *)
(***************************************************************************)
RetryLinks ==
    {c \o UrlPlain \o q : c \in SchemePrefixes \ {<<>>},
                          q \in UNION {PathsOf(k) : k \in 0..MaxSegments}}

InitRetry ==
    /\ \E o \in Ops, l \in RetryLinks :
          retried = [pc |-> "failed", op |-> o, link |-> l, url |-> l]
    /\ match = NoMatch
    /\ norm = NoNorm
    /\ WasFound = <<>>
    /\ ScanIdle
    /\ CallerIdle
    /\ LinkIdle
    /\ PoolIdle

\* if !strings.Contains(url, "https:") { url = strings.Replace(...) }
RetryRewrite ==
    /\ retried.pc = "failed"
    /\ ~Contains(retried.url, StrHttpsColon)
    /\ retried' = [retried EXCEPT !.pc = "retry",
                                  !.url = retryURL(retried.op, retried.link)]
    /\ UNCHANGED <<scanVars, caller, reads, linkVars, poolVars, match, norm,
                   WasFound>>

SpecRetry == InitRetry /\ [][RetryRewrite]_vars

\* C33: the URL of the retry is the link with https put for the http it
\* begins with, and nothing else changed.
RetryChangesSchemeOnly ==
    retried.pc = "retry" =>
        /\ HasPrefix(retried.link, StrHttp)
        /\ retried.url
             = StrHttps \o SubSeq(retried.link, Len(StrHttp) + 1,
                                  Len(retried.link))

\* C32: when a call is over, every link whose first GET failed and whose
\* https retry succeeded has exactly one result, and when it is the last
\* link the call worked on the call returned nil.
RetrySuccessIsFetched ==
    \A c \in Calls :
        calls[c].pc = "done" =>
            \A j \in DOMAIN calls[c].attempts :
                (/\ Len(calls[c].attempts[j]) = 2
                 /\ calls[c].attempts[j][2].ok)
                    => /\ calls[c].recorded[j] = 1
                       /\ (\A l \in Processed(c) : l <= j)
                             => calls[c].ret = Nil

(***************************************************************************)
(* The Scanner revision that keeps sc.WasFound, a map from URL to the      *)
(* outcome of Search (src/search/search.go 357-487).  Its Search fetches   *)
(* the normalized URL only, and its normalizeURL never appends a path.     *)
(* In a call, URL is the normalized argument and url the Go variable URL,  *)
(* which the retry rewrites; written numbers the writes to the map.        *)
(***************************************************************************)
\* normalizeURL of this revision after url.Parse returned u
normalizeParsedMap(u, path) ==
    IF Len(Split(path, StrDot)) < 2 THEN [s |-> <<>>, err |-> ErrDomainMissing]
    ELSE [s |-> joinScheme(schemeOrHttp(u.Scheme), path), err |-> Nil]

normalizeFromMap(u) ==
    IF ~u.ok THEN [s |-> <<>>, err |-> ErrParse]
    ELSE normalizeParsedMap(u, hostOrPath(u, Hostname(u)))

normalizeURLMap(URL) ==
    IF URL = <<>> THEN [s |-> <<>>, err |-> ErrURLEmpty]
    ELSE normalizeFromMap(Parse(URL))

\* the URLs handed to Search: two spellings of one site, its https URL, and
\* a URL without a domain
MapInputs == {UrlPlain, UrlPlain \o StrSlash, UrlSecure, UrlNoDomain}

\* the state after NewScanner(limit, logging), with the Search calls the
\* callers are about to issue
InitMap ==
    /\ limit \in 1..MaxLimit
    /\ limit <= NumSearches
    /\ depthLimit = 0
    /\ sema = 0
    /\ results = <<>>
    /\ mxt = 0
    /\ crashed = FALSE
    /\ \E u \in [1..NumSearches -> MapInputs] :
          calls = [c \in 1..NumSearches |->
                     [NoCall EXCEPT !.op = SearchOp, !.arg = u[c], !.URL = u[c]]]
    /\ CallerIdle
    /\ LinkIdle
    /\ PoolIdle
    /\ PureIdle

\* URL, err = normalizeURL(URL); if err != nil { return err }
MapNormalize(c) ==
    /\ ~crashed
    /\ calls[c].pc = "normalize"
    /\ IF normalizeURLMap(calls[c].URL).err # Nil
       THEN Set(c, [calls[c] EXCEPT
                 !.pc = "release", !.URL = <<>>,
                 !.ret = normalizeURLMap(calls[c].URL).err])
       ELSE Set(c, [calls[c] EXCEPT
                 !.pc = "get",
                 !.URL = normalizeURLMap(calls[c].URL).s,
                 !.url = normalizeURLMap(calls[c].URL).s])
    /\ UNCHANGED <<limit, depthLimit, sema, results, mxt, crashed, outside>>

\* res, err := client.Get(URL); on failure URL is rewritten for the retry
\* unless it contains "https:", and then control reaches
\* defer res.Body.Close() with res == nil
MapGet(c) ==
    /\ ~crashed
    /\ calls[c].pc = "get"
    /\ \E ok \in BOOLEAN :
          IF ok
          THEN Set(c, [calls[c] EXCEPT !.gets = @ + 1, !.res = "resp",
                                       !.pc = "match"])
          ELSE IF ~Contains(calls[c].url, StrHttpsColon)
          THEN Set(c, [calls[c] EXCEPT
                    !.gets = @ + 1,
                    !.url = Replace(calls[c].url, StrHttp, StrHttps, -1),
                    !.pc = "retry"])
          ELSE Set(c, [calls[c] EXCEPT !.gets = @ + 1, !.pc = "release",
                                       !.panicking = TRUE])
    /\ UNCHANGED <<limit, depthLimit, sema, results, mxt, crashed, outside>>

\* res, err = client.Get(URL) over https: on failure WasFound[URL] = false
\* is written; either way the call returns err
MapRetry(c) ==
    /\ ~crashed
    /\ calls[c].pc = "retry"
    /\ \E ok \in BOOLEAN :
          IF ok
          THEN Set(c, [calls[c] EXCEPT !.gets = @ + 1, !.res = "resp",
                                       !.pc = "release", !.ret = Nil])
          ELSE Set(c, [calls[c] EXCEPT !.gets = @ + 1, !.pc = "lock",
                                       !.pending = FALSE,
                                       !.retAfter = ErrTransport])
    /\ UNCHANGED <<limit, depthLimit, sema, results, mxt, crashed, outside>>

\* found := searchRegex.Match(buf.Bytes())
MapMatch(c) ==
    /\ ~crashed
    /\ calls[c].pc = "match"
    /\ \E found \in BOOLEAN :
          Set(c, [calls[c] EXCEPT !.pc = "lock", !.held = @ + 1,
                                  !.pending = found, !.retAfter = Nil])
    /\ UNCHANGED <<limit, depthLimit, sema, results, mxt, crashed, outside>>

\* sc.mxt.Lock()
MapLock(c) ==
    /\ ~crashed
    /\ calls[c].pc = "lock"
    /\ mxt = 0
    /\ mxt' = c
    /\ Set(c, [calls[c] EXCEPT !.pc = "store"])
    /\ UNCHANGED <<limit, depthLimit, sema, results, crashed, outside>>

\* the number of writes made to the map so far
Writes == Cardinality({c \in Calls : calls[c].written > 0})

\* sc.WasFound[URL] = found; sc.mxt.Unlock(); return
MapStore(c) ==
    /\ ~crashed
    /\ calls[c].pc = "store"
    /\ WasFound' = (calls[c].url :> calls[c].pending) @@ WasFound
    /\ mxt' = 0
    /\ Set(c, [calls[c] EXCEPT !.pc = "release", !.ret = calls[c].retAfter,
                               !.written = Writes + 1])
    /\ UNCHANGED <<limit, depthLimit, sema, results, crashed, caller, reads,
                   linkVars, poolVars, match, norm, retried>>

NextMap ==
    \E c \in 1..NumSearches :
        \/ Call(c)
        \/ Load(c)
        \/ MapNormalize(c)
        \/ MapGet(c)
        \/ MapRetry(c)
        \/ MapMatch(c)
        \/ MapLock(c)
        \/ MapStore(c)
        \/ Release(c)

SpecMap == InitMap /\ [][NextMap]_vars

\* the Search calls that returned after fetching: over, and past normalizeURL
Fetching == {c \in Calls : calls[c].pc = "done" /\ calls[c].gets > 0}

\* the call that wrote the entry of the normalized URL u last
LastWriter(u) ==
    CHOOSE c \in Calls :
        /\ calls[c].URL = u
        /\ calls[c].written > 0
        /\ \A d \in Calls :
              (calls[d].URL = u /\ calls[d].written > 0)
                  => calls[d].written <= calls[c].written

\* C31: when no Search call is under way, the map has one entry for each
\* normalized URL that a returned call fetched and no other entry, and the
\* value of an entry is the outcome of the call that recorded that URL last.
MapHoldsLastOutcome ==
    (\A c \in Calls : calls[c].pc \in {"idle", "done"}) =>
        /\ DOMAIN WasFound = {calls[c].URL : c \in Fetching}
        /\ \A u \in DOMAIN WasFound :
              /\ \E c \in Calls : calls[c].URL = u /\ calls[c].written > 0
              /\ WasFound[u] = calls[LastWriter(u)].pending

====
